---- MODULE Spec2Model ----
(***************************************************************************)
(* A model of parse_constitution.py: the clause parser (parse_clauses),    *)
(* the title resolver (normalize_title, get_article_number_map and the     *)
(* numbering branch of parse_articles_improved), the article detector      *)
(* (parse_articles_improved), the schedule extractor (parse_schedules) and *)
(* the document segmenter (parse_constitution).                            *)
(*                                                                         *)
(* Text is modelled as a sequence of characters, each character a          *)
(* one-character string.  The characters outside ASCII that the program    *)
(* names are written as the tokens EmDash, EnDash, LigFi, LigFl, CurlyApos *)
(* and CurlyOpen.                                                          *)
(***************************************************************************)
EXTENDS Integers, Sequences, FiniteSets, TLC

VARIABLES
    mode,                 \* which function of the program this run executes
    pc,                   \* position in that function
    \* ---- parse_clauses
    article_lines,        \* the lines the for loop has taken so far
    clauses,
    current_clause_num,
    current_clause_text,
    current_subclauses,
    implicit_clause_num,
    \* ---- parse_articles_improved, first pass
    article_positions,    \* <<title, number>> of the confirmed titles so far
    \* ---- parse_constitution
    lines,                \* content.split('\n')
    i,                    \* index of the line the preamble loop takes next
    preamble_start,
    preamble_end,
    preamble,             \* result["preamble"]
    content_text,
    chapter_matches,      \* list(re.finditer(chapter_pattern, content_text))
    idx,                  \* loop index of the chapter loop
    chapters,             \* result["chapters"]
    schedules             \* result["schedules"]

clauseVars == <<article_lines, clauses, current_clause_num, current_clause_text,
                current_subclauses, implicit_clause_num>>
titleVars  == <<article_positions>>
segVars    == <<lines, i, preamble_start, preamble_end, preamble, content_text,
                chapter_matches, idx, chapters, schedules>>
vars == <<mode, pc, clauseVars, titleVars, segVars>>

\* Python's None, for the variables that hold None or an integer.
None == -1

-----------------------------------------------------------------------------
(* Characters and the string functions of Python the program uses.         *)

EmDash    == "EMDASH"
EnDash    == "ENDASH"
LigFi     == "LIGFI"
LigFl     == "LIGFL"
CurlyApos == "RSQUO"
CurlyOpen == "LSQUO"
NL        == "\n"

Whitespace == {" ", "\t", NL}
Digits     == <<"0", "1", "2", "3", "4", "5", "6", "7", "8", "9">>
DigitSet   == {Digits[k] : k \in 1..10}
LowerCase  == {"a", "b", "c", "d", "e", "f", "g", "h", "i", "j", "k", "l", "m",
               "n", "o", "p", "q", "r", "s", "t", "u", "v", "w", "x", "y", "z"}
RomanSet   == {"i", "v", "x"}

\* int() of one decimal digit
DigitVal(c) == (CHOOSE k \in 1..10 : Digits[k] = c) - 1

\* s[p:] with p counted from 1
From(s, p) == IF p > Len(s) THEN <<>> ELSE SubSeq(s, p, Len(s))

\* number of leading characters of s[p:] that are in set S (a greedy x* run)
RECURSIVE Run(_, _, _)
Run(s, p, S) == IF p <= Len(s) /\ s[p] \in S THEN 1 + Run(s, p + 1, S) ELSE 0

\* str.startswith
StartsWith(s, pre) == Len(pre) <= Len(s) /\ SubSeq(s, 1, Len(pre)) = pre

\* str.endswith
EndsWith(s, suf) ==
    Len(suf) <= Len(s) /\ SubSeq(s, Len(s) - Len(suf) + 1, Len(s)) = suf

RECURSIVE rstrip(_)
rstrip(s) == IF s # <<>> /\ s[Len(s)] \in Whitespace
             THEN rstrip(SubSeq(s, 1, Len(s) - 1)) ELSE s

\* str.strip()
strip(s) == rstrip(From(s, Run(s, 1, Whitespace) + 1))

\* sep.join(list), joining the two halves of the list
RECURSIVE join(_, _)
join(sep, list) ==
    IF list = <<>> THEN <<>>
    ELSE IF Len(list) = 1 THEN list[1]
    ELSE LET h == Len(list) \div 2
         IN  join(sep, SubSeq(list, 1, h)) \o sep
                 \o join(sep, SubSeq(list, h + 1, Len(list)))

\* int() of a non-empty run of decimal digits
RECURSIVE int(_)
int(ds) == IF Len(ds) = 1 THEN DigitVal(ds[1])
           ELSE 10 * int(SubSeq(ds, 1, Len(ds) - 1)) + DigitVal(ds[Len(ds)])

\* str() of a natural number
RECURSIVE str(_)
str(n) == IF n < 10 THEN <<Digits[n + 1]>>
          ELSE str(n \div 10) \o <<Digits[(n % 10) + 1]>>

NoMatch == [matched |-> FALSE, g1 |-> <<>>, g2 |-> <<>>]

\* re.match(r'^\((<cls>+)\)\s*(.*)$', line): group 1 is the run of characters
\* of class S between the parentheses, group 2 the rest after the whitespace.
MarkerMatch(line, S) ==
    LET n == Run(line, 2, S)
        q == 2 + n                             \* where ")" has to be
        r == q + 1 + Run(line, q + 1, Whitespace)
    IN  IF /\ Len(line) >= 1 /\ line[1] = "("
           /\ n >= 1
           /\ q <= Len(line) /\ line[q] = ")"
           /\ NL \notin {line[k] : k \in r..Len(line)}
        THEN [matched |-> TRUE, g1 |-> SubSeq(line, 2, q - 1), g2 |-> From(line, r)]
        ELSE NoMatch

\* re.match(r'^\((\d+)\)\s*(.*)$', line)
clause_match(line) == MarkerMatch(line, DigitSet)

\* re.match(r'^\(([ivx]+)\)\s*(.*)$', line)
subsubclause_match(line) == MarkerMatch(line, RomanSet)

\* re.match(r'^(?:\()?([a-z])(?:\))?\s+(.+)$', line): group 1 is the letter,
\* group 2 the rest after the whitespace run (which gives back its last
\* character when nothing else is left for ".+").
subclause_match(line) ==
    LET p == IF Len(line) >= 1 /\ line[1] = "(" THEN 2 ELSE 1   \* the letter
        q == IF p + 1 <= Len(line) /\ line[p + 1] = ")" THEN p + 2 ELSE p + 1
        w == Run(line, q, Whitespace)
        r == IF q + w > Len(line) THEN q + w - 1 ELSE q + w
    IN  IF /\ p <= Len(line) /\ line[p] \in LowerCase
           /\ w >= 1
           /\ r >= q + 1
           /\ NL \notin {line[k] : k \in r..Len(line)}
        THEN [matched |-> TRUE, g1 |-> <<line[p]>>, g2 |-> From(line, r)]
        ELSE NoMatch

-----------------------------------------------------------------------------
(* parse_clauses: one action per branch of the body of its for loop, and   *)
(* Return for the flush after the loop.                                    *)

MaxLines == 4

\* The lines the article body is made of.
ClauseLinePool == {
    <<"(","1",")"," ","F","i","r","s","t"," ","p","a","r","t",".">>,
    <<"(","2",")"," ","(","a",")"," ","a","l","p","h","a"," ","t","e","x","t">>,
    <<"(","b",")"," ","b","e","t","a"," ","t","e","x","t">>,
    <<"(","i",")"," ","s","u","b","-","i"," ","t","e","x","t">>,
    <<"(","i","i",")"," ","t","w","o">>,
    <<"(","x",")">>,
    <<"P","l","a","i","n"," ","s","t","a","t","e","m","e","n","t"," ","o","n","e",".">>,
    <<"P","l","a","i","n"," ","s","t","a","t","e","m","e","n","t"," ","t","w","o",".">>,
    <<" ">>,
    <<"\t","a","n","d"," ","m","o","r","e"," ">>,
    <<"C","o","n","s","t","i","t","u","t","i","o","n"," ","o","f"," ","K","e","n","y","a",","," ","2","0","1","0"," ","1","2">>,
    <<" ","(","0","3",")","\t">>,
    <<"a"," ","p","e","r","s","o","n">> }

PageMarker == <<"C","o","n","s","t","i","t","u","t","i","o","n"," ","o","f"," ","K","e","n","y","a">>

\* Branch, with a roman-numeral marker that has no sub-clause to attach to
\* skipped like a page marker.
Branch_DropsOrphan(line, clause_num, subclauses) ==
    IF line = <<>> THEN "blank"
    ELSE IF StartsWith(line, PageMarker) THEN "page"
    ELSE IF clause_match(line).matched THEN "clause"
    ELSE IF subclause_match(line).matched /\ clause_num # None THEN "subclause"
    ELSE IF subsubclause_match(line).matched
         THEN (IF subclauses # <<>> THEN "subsubclause" ELSE "page")
    ELSE IF clause_num = None THEN "implicit"
    ELSE "continuation"

\* The branch of the loop body that the (stripped) line takes, in the order
\* the code tests them.
Branch(line, clause_num, subclauses) ==
    IF line = <<>> THEN "blank"
    ELSE IF StartsWith(line, PageMarker) THEN "page"
    ELSE IF clause_match(line).matched THEN "clause"
    ELSE IF subclause_match(line).matched /\ clause_num # None THEN "subclause"
    ELSE IF subsubclause_match(line).matched /\ subclauses # <<>> THEN "subsubclause"
    ELSE IF clause_num = None THEN "implicit"
    ELSE "continuation"

\* The dictionary appended to clauses for the clause in progress.
ClauseDict(clause_num, clause_text, subclauses) ==
    [number     |-> str(clause_num),
     text       |-> strip(join(<<" ">>, clause_text)),
     subClauses |-> subclauses]

InitClauses ==
    /\ mode = "parse_clauses"
    /\ pc = "loop"
    /\ article_lines = <<>>
    /\ clauses = <<>>
    /\ current_clause_num = None
    /\ current_clause_text = <<>>
    /\ current_subclauses = <<>>
    /\ implicit_clause_num = 1
    /\ article_positions = <<>>
    /\ lines = <<>> /\ i = 0 /\ preamble_start = None /\ preamble_end = None
    /\ preamble = <<>> /\ content_text = <<>> /\ chapter_matches = <<>>
    /\ idx = 0 /\ chapters = <<>> /\ schedules = <<>>

\* The loop takes the next line of the article body.
Take(raw, branch) ==
    /\ mode = "parse_clauses" /\ pc = "loop"
    /\ Len(article_lines) < MaxLines
    /\ Branch(strip(raw), current_clause_num, current_subclauses) = branch
    /\ article_lines' = Append(article_lines, raw)
    /\ UNCHANGED <<mode, pc, titleVars, segVars>>

SkipBlank(raw) ==
    /\ Take(raw, "blank")
    /\ UNCHANGED <<clauses, current_clause_num, current_clause_text,
                   current_subclauses, implicit_clause_num>>

SkipPageMarker(raw) ==
    /\ Take(raw, "page")
    /\ UNCHANGED <<clauses, current_clause_num, current_clause_text,
                   current_subclauses, implicit_clause_num>>

ExplicitClause(raw) ==
    LET m == clause_match(strip(raw)) IN
    /\ Take(raw, "clause")
    /\ clauses' = IF current_clause_num # None
                  THEN Append(clauses, ClauseDict(current_clause_num,
                                   current_clause_text, current_subclauses))
                  ELSE clauses
    /\ current_clause_num' = int(m.g1)
    /\ implicit_clause_num' = int(m.g1) + 1
    /\ current_clause_text' = IF m.g2 # <<>> THEN <<m.g2>> ELSE <<>>
    /\ current_subclauses' = <<>>

SubClause(raw) ==
    LET m == subclause_match(strip(raw)) IN
    /\ Take(raw, "subclause")
    /\ current_subclauses' =
           Append(current_subclauses, [label |-> m.g1, text |-> m.g2])
    /\ UNCHANGED <<clauses, current_clause_num, current_clause_text,
                   implicit_clause_num>>

\* SubSubClause, with the text appended to the first sub-clause.
SubSubClause_IntoFirst(raw) ==
    LET m == subsubclause_match(strip(raw))
    IN
    /\ Take(raw, "subsubclause")
    /\ current_subclauses' =
           [current_subclauses EXCEPT ![1].text =
                @ \o <<" ", "(">> \o m.g1 \o <<")", " ">> \o m.g2]
    /\ UNCHANGED <<clauses, current_clause_num, current_clause_text,
                   implicit_clause_num>>

SubSubClause(raw) ==
    LET m == subsubclause_match(strip(raw))
        n == Len(current_subclauses)
    IN
    /\ Take(raw, "subsubclause")
    /\ current_subclauses' =
           [current_subclauses EXCEPT ![n].text =
                @ \o <<" ", "(">> \o m.g1 \o <<")", " ">> \o m.g2]
    /\ UNCHANGED <<clauses, current_clause_num, current_clause_text,
                   implicit_clause_num>>

ImplicitClause(raw) ==
    /\ Take(raw, "implicit")
    /\ current_clause_num' = implicit_clause_num
    /\ implicit_clause_num' = implicit_clause_num + 1
    /\ current_clause_text' = <<strip(raw)>>
    /\ current_subclauses' = <<>>
    /\ UNCHANGED clauses

\* Continuation, with the line opening a clause of its own.
Continuation_NewClause(raw) ==
    /\ Take(raw, "continuation")
    /\ clauses' = Append(clauses, ClauseDict(current_clause_num,
                              current_clause_text, current_subclauses))
    /\ current_clause_num' = implicit_clause_num
    /\ implicit_clause_num' = implicit_clause_num + 1
    /\ current_clause_text' = <<strip(raw)>>
    /\ current_subclauses' = <<>>

Continuation(raw) ==
    /\ Take(raw, "continuation")
    /\ current_clause_text' = Append(current_clause_text, strip(raw))
    /\ UNCHANGED <<clauses, current_clause_num, current_subclauses,
                   implicit_clause_num>>

\* The end of article_lines: the last clause is appended and clauses returned.
Return ==
    /\ mode = "parse_clauses" /\ pc = "loop"
    /\ pc' = "done"
    /\ clauses' = IF current_clause_num # None
                  THEN Append(clauses, ClauseDict(current_clause_num,
                                   current_clause_text, current_subclauses))
                  ELSE clauses
    /\ UNCHANGED <<mode, article_lines, current_clause_num, current_clause_text,
                   current_subclauses, implicit_clause_num, titleVars, segVars>>

NextClauses ==
    \/ \E raw \in ClauseLinePool : SkipBlank(raw)
    \/ \E raw \in ClauseLinePool : SkipPageMarker(raw)
    \/ \E raw \in ClauseLinePool : ExplicitClause(raw)
    \/ \E raw \in ClauseLinePool : SubClause(raw)
    \/ \E raw \in ClauseLinePool : SubSubClause(raw)
    \/ \E raw \in ClauseLinePool : ImplicitClause(raw)
    \/ \E raw \in ClauseLinePool : Continuation(raw)
    \/ Return

SpecClauses == InitClauses /\ [][NextClauses]_vars

\* parse_clauses(article_lines), once it has returned
Returned == mode = "parse_clauses" /\ pc = "done"

-----------------------------------------------------------------------------
(* Claims about parse_clauses.                                             *)

\* The line the loop has just taken, stripped.
TakenLine == strip(article_lines'[Len(article_lines')])
Taking == mode = "parse_clauses" /\ Len(article_lines') = Len(article_lines) + 1

\* A roman-numeral marker line "(<r>)<text>"
IsRomanLine(line) == subsubclause_match(line).matched

C1_Lines == <<
    <<"(","1",")"," ","F","i","r","s","t"," ","p","a","r","t",".">>,
    <<"(","2",")"," ","(","a",")"," ","a","l","p","h","a"," ","t","e","x","t">>,
    <<"(","b",")"," ","b","e","t","a"," ","t","e","x","t">>,
    <<"(","i",")"," ","s","u","b","-","i"," ","t","e","x","t">> >>

C1_Expected == <<
    [number |-> <<"1">>,
     text |-> <<"F","i","r","s","t"," ","p","a","r","t",".">>,
     subClauses |-> <<>>],
    [number |-> <<"2">>,
     text |-> <<>>,
     subClauses |-> <<
        [label |-> <<"a">>, text |-> <<"a","l","p","h","a"," ","t","e","x","t">>],
        [label |-> <<"b">>,
         text |-> <<"b","e","t","a"," ","t","e","x","t"," ","(","i",")"," ",
                    "s","u","b","-","i"," ","t","e","x","t">>] >>] >>

\* C1: parse_clauses applied to ["(1) First part.", "(2) (a) alpha text",
\* "(b) beta text", "(i) sub-i text"] returns clause "1" with text
\* "First part." and no sub-clauses, then clause "2" with text "" and the
\* sub-clauses {a, "alpha text"}, {b, "beta text (i) sub-i text"}.
C1_Example == (Returned /\ article_lines = C1_Lines) => clauses = C1_Expected

\* C2: a roman-numeral marker line taken while the current clause has a
\* sub-clause leaves the number of sub-clauses unchanged, opens and flushes
\* no clause, and extends the text of the last sub-clause by
\* " (<r>) <text>".
C2_RomanExtendsLastSubClause ==
    [][ (Taking /\ IsRomanLine(TakenLine) /\ current_subclauses # <<>>) =>
          LET m == subsubclause_match(TakenLine)
              n == Len(current_subclauses)
          IN  /\ Len(current_subclauses') = n
              /\ clauses' = clauses
              /\ current_clause_num' = current_clause_num
              /\ current_clause_text' = current_clause_text
              /\ current_subclauses'[n].text =
                     current_subclauses[n].text
                         \o <<" ", "(">> \o m.g1 \o <<")", " ">> \o m.g2
      ]_vars

\* C3, as claimed: a roman-numeral marker line taken while the current
\* clause has no sub-clause, or while no clause is open, is dropped: it
\* opens no clause and is added to no clause's text and to no sub-clause.
C3_OrphanRomanDropped ==
    [][ (Taking /\ IsRomanLine(TakenLine) /\ current_subclauses = <<>>) =>
          UNCHANGED <<clauses, current_clause_num, current_clause_text,
                      current_subclauses, implicit_clause_num>>
      ]_vars

\* C3, amended: a roman-numeral marker line taken while there is no
\* sub-clause is kept.  With no clause open it opens the implicit clause,
\* whose text is the whole line.  With a clause open, a line that also has
\* the form of a sub-clause marker (a one-letter numeral followed by
\* whitespace and text) becomes a new sub-clause labelled with that letter,
\* and any other line is appended whole to the text of the current clause.
C3_OrphanRomanKept ==
    [][ (Taking /\ IsRomanLine(TakenLine) /\ current_subclauses = <<>>) =>
          /\ clauses' = clauses
          /\ IF current_clause_num = None
             THEN /\ current_clause_num' = implicit_clause_num
                  /\ current_clause_text' = <<TakenLine>>
                  /\ current_subclauses' = <<>>
             ELSE /\ current_clause_num' = current_clause_num
                  /\ IF subclause_match(TakenLine).matched
                     THEN /\ current_subclauses' =
                                <<[label |-> <<TakenLine[2]>>,
                                   text  |-> subclause_match(TakenLine).g2]>>
                          /\ current_clause_text' = current_clause_text
                     ELSE /\ current_subclauses' = <<>>
                          /\ current_clause_text' =
                                Append(current_clause_text, TakenLine)
      ]_vars

\* A roman-numeral marker line was the last line taken, the clause has no
\* sub-clause, and the line is the end of the text of the clause.
C3_Witness ==
    /\ mode = "parse_clauses" /\ pc = "loop"
    /\ Len(article_lines) >= 2
    /\ IsRomanLine(strip(article_lines[Len(article_lines)]))
    /\ current_subclauses = <<>>
    /\ Len(current_clause_text) >= 2
    /\ current_clause_text[Len(current_clause_text)] =
           strip(article_lines[Len(article_lines)])

\* A line that is body text only: not blank, not a page marker, none of the
\* three markers.
IsPlainLine(raw) ==
    LET line == strip(raw) IN
    /\ line # <<>>
    /\ ~StartsWith(line, PageMarker)
    /\ ~clause_match(line).matched
    /\ ~subclause_match(line).matched
    /\ ~subsubclause_match(line).matched

\* C4: a non-empty body of plain lines gives exactly one clause, numbered
\* "1", whose text is the trimmed lines joined by single spaces and which
\* has no sub-clauses.
C4_PlainBodyIsOneClause ==
    (/\ Returned
     /\ article_lines # <<>>
     /\ \A k \in 1..Len(article_lines) : IsPlainLine(article_lines[k]))
    => clauses = << [number     |-> <<"1">>,
                     text       |-> join(<<" ">>, [k \in 1..Len(article_lines)
                                                   |-> strip(article_lines[k])]),
                     subClauses |-> <<>>] >>

\* parse_clauses(["Plain statement one.", "Plain statement two."]) has
\* returned the one clause "Plain statement one. Plain statement two."
C4_Witness ==
    /\ Returned
    /\ article_lines = <<
         <<"P","l","a","i","n"," ","s","t","a","t","e","m","e","n","t"," ","o","n","e",".">>,
         <<"P","l","a","i","n"," ","s","t","a","t","e","m","e","n","t"," ","t","w","o",".">> >>
    /\ Len(clauses) = 1
    /\ clauses[1].text =
         <<"P","l","a","i","n"," ","s","t","a","t","e","m","e","n","t"," ","o","n","e",".",
           " ","P","l","a","i","n"," ","s","t","a","t","e","m","e","n","t"," ","t","w","o",".">>

\* The sub-clauses of the clause in progress after a step: the sub-clause
\* list of the clause the step has appended to clauses, when it has
\* appended one, and current_subclauses otherwise.
C16_SubClausesAfter ==
    IF Len(clauses') > Len(clauses) THEN clauses'[Len(clauses')].subClauses
    ELSE current_subclauses'

\* Every clause of the output list is still there, with its number, text
\* and sub-clauses, after a step.
C16_ClausesKept ==
    /\ Len(clauses') >= Len(clauses)
    /\ \A k \in 1..Len(clauses) : clauses'[k] = clauses[k]

\* C16, as claimed: no later line changes a clause that is in the output
\* list (number, text, sub-clauses) or a sub-clause that is in the sub-clause
\* list of a clause (label, text).
C16_AppendOnceThenFrozen ==
    [][ mode = "parse_clauses" =>
          /\ C16_ClausesKept
          /\ Len(C16_SubClausesAfter) >= Len(current_subclauses)
          /\ \A k \in 1..Len(current_subclauses) :
                 C16_SubClausesAfter[k] = current_subclauses[k]
      ]_vars

\* C16, amended: no later line changes a clause that is in the output list,
\* sub-clauses included; a sub-clause in the list of the clause in progress
\* keeps its place and its label, and its text changes in one way only:
\* while it is the last sub-clause of the clause in progress, a
\* roman-numeral marker line "(<r>)<text>" appends " (<r>) <text>" to it.
C16_FrozenButLastSubClause ==
    [][ mode = "parse_clauses" =>
          /\ C16_ClausesKept
          /\ Len(C16_SubClausesAfter) >= Len(current_subclauses)
          /\ \A k \in 1..Len(current_subclauses) :
                 /\ C16_SubClausesAfter[k].label = current_subclauses[k].label
                 /\ \/ C16_SubClausesAfter[k].text = current_subclauses[k].text
                    \/ /\ k = Len(current_subclauses)
                       /\ Len(clauses') = Len(clauses)
                       /\ Taking /\ IsRomanLine(TakenLine)
                       /\ C16_SubClausesAfter[k].text =
                              current_subclauses[k].text
                                  \o <<" ", "(">> \o subsubclause_match(TakenLine).g1
                                  \o <<")", " ">> \o subsubclause_match(TakenLine).g2
      ]_vars

\* Clause 1 is in the output list with its sub-clause b, whose text the
\* line "(ii) two" extended before the line "(2) (a) alpha text" ended the
\* clause.
C16_Witness ==
    /\ mode = "parse_clauses"
    /\ Len(article_lines) = 4
    /\ Len(clauses) >= 1
    /\ clauses[1].number = <<"1">>
    /\ Len(clauses[1].subClauses) = 1
    /\ clauses[1].subClauses[1] =
           [label |-> <<"b">>,
            text  |-> <<"b","e","t","a"," ","t","e","x","t"," ","(","i","i",")"," ","t","w","o">>]
    /\ current_clause_num = 2

-----------------------------------------------------------------------------
(* The title resolver: normalize_title, the table of                       *)
(* get_article_number_map, and the numbering of a confirmed title in the   *)
(* first pass of parse_articles_improved.                                  *)

UpperSeq == <<"A", "B", "C", "D", "E", "F", "G", "H", "I", "J", "K", "L", "M",
              "N", "O", "P", "Q", "R", "S", "T", "U", "V", "W", "X", "Y", "Z">>
LowerSeq == <<"a", "b", "c", "d", "e", "f", "g", "h", "i", "j", "k", "l", "m",
              "n", "o", "p", "q", "r", "s", "t", "u", "v", "w", "x", "y", "z">>

\* str.lower()
lower(s) ==
    [k \in 1..Len(s) |->
       IF \E u \in 1..26 : UpperSeq[u] = s[k]
       THEN LowerSeq[CHOOSE u \in 1..26 : UpperSeq[u] = s[k]]
       ELSE s[k]]

\* str.replace(old, new) for a one-character old
RECURSIVE replace(_, _, _)
replace(s, old, new) ==
    IF s = <<>> THEN <<>>
    ELSE (IF Head(s) = old THEN new ELSE <<Head(s)>>) \o replace(Tail(s), old, new)

\* re.sub(r'\s+', ' ', s)
RECURSIVE sub_whitespace(_)
sub_whitespace(s) ==
    IF s = <<>> THEN <<>>
    ELSE IF Head(s) \in Whitespace
         THEN <<" ">> \o sub_whitespace(From(s, Run(s, 1, Whitespace) + 1))
         ELSE <<Head(s)>> \o sub_whitespace(Tail(s))

normalize_title(title) ==
    LET t1 == strip(lower(title))
        t2 == replace(replace(t1, EmDash, <<"-">>), EnDash, <<"-">>)
        \* line 286 replaces the straight apostrophe by itself, twice
        t3 == replace(replace(t2, "'", <<"'">>), "'", <<"'">>)
        t4 == replace(replace(t3, LigFi, <<"f", "i">>), LigFl, <<"f", "l">>)
    IN  sub_whitespace(t4)

\* The key: value pairs of the dictionary display of get_article_number_map,
\* in the order they are written (source lines 296 to 582).
TableEntries == <<
    <<<<"s","o","v","e","r","e","i","g","n","t","y"," ","o","f"," ","t","h","e"," ","p","e","o","p","l","e">>, 1>>,
    <<<<"s","u","p","r","e","m","a","c","y"," ","o","f"," ","t","h","i","s"," ","c","o","n","s","t","i","t","u","t","i","o","n">>, 2>>,
    <<<<"d","e","f","e","n","c","e"," ","o","f"," ","t","h","i","s"," ","c","o","n","s","t","i","t","u","t","i","o","n">>, 3>>,
    <<<<"d","e","c","l","a","r","a","t","i","o","n"," ","o","f"," ","t","h","e"," ","r","e","p","u","b","l","i","c">>, 4>>,
    <<<<"t","e","r","r","i","t","o","r","y"," ","o","f"," ","k","e","n","y","a">>, 5>>,
    <<<<"d","e","v","o","l","u","t","i","o","n"," ","a","n","d"," ","a","c","c","e","s","s"," ","t","o"," ","s","e","r","v","i","c","e","s">>, 6>>,
    <<<<"n","a","t","i","o","n","a","l",","," ","o","f","f","i","c","i","a","l"," ","a","n","d"," ","o","t","h","e","r"," ","l","a","n","g","u","a","g","e","s">>, 7>>,
    <<<<"n","a","t","i","o","n","a","l",","," ","o","f",LigFi,"c","i","a","l"," ","a","n","d"," ","o","t","h","e","r"," ","l","a","n","g","u","a","g","e","s">>, 7>>,
    <<<<"s","t","a","t","e"," ","a","n","d"," ","r","e","l","i","g","i","o","n">>, 8>>,
    <<<<"n","a","t","i","o","n","a","l"," ","s","y","m","b","o","l","s"," ","a","n","d"," ","n","a","t","i","o","n","a","l"," ","d","a","y","s">>, 9>>,
    <<<<"n","a","t","i","o","n","a","l"," ","v","a","l","u","e","s"," ","a","n","d"," ","p","r","i","n","c","i","p","l","e","s"," ","o","f"," ","g","o","v","e","r","n","a","n","c","e">>, 10>>,
    <<<<"c","u","l","t","u","r","e">>, 11>>,
    <<<<"e","n","t","i","t","l","e","m","e","n","t","s"," ","o","f"," ","c","i","t","i","z","e","n","s">>, 12>>,
    <<<<"r","e","t","e","n","t","i","o","n"," ","a","n","d"," ","a","c","q","u","i","s","i","t","i","o","n"," ","o","f"," ","c","i","t","i","z","e","n","s","h","i","p">>, 13>>,
    <<<<"c","i","t","i","z","e","n","s","h","i","p"," ","b","y"," ","b","i","r","t","h">>, 14>>,
    <<<<"c","i","t","i","z","e","n","s","h","i","p"," ","b","y"," ","r","e","g","i","s","t","r","a","t","i","o","n">>, 15>>,
    <<<<"d","u","a","l"," ","c","i","t","i","z","e","n","s","h","i","p">>, 16>>,
    <<<<"r","e","v","o","c","a","t","i","o","n"," ","o","f"," ","c","i","t","i","z","e","n","s","h","i","p">>, 17>>,
    <<<<"l","e","g","i","s","l","a","t","i","o","n"," ","o","n"," ","c","i","t","i","z","e","n","s","h","i","p">>, 18>>,
    <<<<"r","i","g","h","t","s"," ","a","n","d"," ","f","u","n","d","a","m","e","n","t","a","l"," ","f","r","e","e","d","o","m","s">>, 19>>,
    <<<<"a","p","p","l","i","c","a","t","i","o","n"," ","o","f"," ","b","i","l","l"," ","o","f"," ","r","i","g","h","t","s">>, 20>>,
    <<<<"i","m","p","l","e","m","e","n","t","a","t","i","o","n"," ","o","f"," ","r","i","g","h","t","s"," ","a","n","d"," ","f","u","n","d","a","m","e","n","t","a","l"," ","f","r","e","e","d","o","m","s">>, 21>>,
    <<<<"e","n","f","o","r","c","e","m","e","n","t"," ","o","f"," ","b","i","l","l"," ","o","f"," ","r","i","g","h","t","s">>, 22>>,
    <<<<"a","u","t","h","o","r","i","t","y"," ","o","f"," ","c","o","u","r","t","s"," ","t","o"," ","u","p","h","o","l","d"," ","a","n","d"," ","e","n","f","o","r","c","e"," ","t","h","e"," ","b","i","l","l"," ","o","f"," ","r","i","g","h","t","s">>, 23>>,
    <<<<"l","i","m","i","t","a","t","i","o","n"," ","o","f"," ","r","i","g","h","t","s"," ","a","n","d"," ","f","u","n","d","a","m","e","n","t","a","l"," ","f","r","e","e","d","o","m","s">>, 24>>,
    <<<<"l","i","m","i","t","a","t","i","o","n"," ","o","f"," ","r","i","g","h","t","s"," ","o","r"," ","f","u","n","d","a","m","e","n","t","a","l"," ","f","r","e","e","d","o","m","s">>, 24>>,
    <<<<"f","u","n","d","a","m","e","n","t","a","l"," ","r","i","g","h","t","s"," ","a","n","d"," ","f","r","e","e","d","o","m","s"," ","t","h","a","t"," ","m","a","y"," ","n","o","t"," ","b","e"," ","l","i","m","i","t","e","d">>, 25>>,
    <<<<"r","i","g","h","t"," ","t","o"," ","l","i","f","e">>, 26>>,
    <<<<"e","q","u","a","l","i","t","y"," ","a","n","d"," ","f","r","e","e","d","o","m"," ","f","r","o","m"," ","d","i","s","c","r","i","m","i","n","a","t","i","o","n">>, 27>>,
    <<<<"h","u","m","a","n"," ","d","i","g","n","i","t","y">>, 28>>,
    <<<<"f","r","e","e","d","o","m"," ","a","n","d"," ","s","e","c","u","r","i","t","y"," ","o","f"," ","t","h","e"," ","p","e","r","s","o","n">>, 29>>,
    <<<<"s","l","a","v","e","r","y",","," ","s","e","r","v","i","t","u","d","e"," ","a","n","d"," ","f","o","r","c","e","d"," ","l","a","b","o","u","r">>, 30>>,
    <<<<"p","r","i","v","a","c","y">>, 31>>,
    <<<<"f","r","e","e","d","o","m"," ","o","f"," ","c","o","n","s","c","i","e","n","c","e",","," ","r","e","l","i","g","i","o","n",","," ","b","e","l","i","e","f"," ","a","n","d"," ","o","p","i","n","i","o","n">>, 32>>,
    <<<<"f","r","e","e","d","o","m"," ","o","f"," ","e","x","p","r","e","s","s","i","o","n">>, 33>>,
    <<<<"f","r","e","e","d","o","m"," ","o","f"," ","t","h","e"," ","m","e","d","i","a">>, 34>>,
    <<<<"a","c","c","e","s","s"," ","t","o"," ","i","n","f","o","r","m","a","t","i","o","n">>, 35>>,
    <<<<"f","r","e","e","d","o","m"," ","o","f"," ","a","s","s","o","c","i","a","t","i","o","n">>, 36>>,
    <<<<"a","s","s","e","m","b","l","y",","," ","d","e","m","o","n","s","t","r","a","t","i","o","n",","," ","p","i","c","k","e","t","i","n","g"," ","a","n","d"," ","p","e","t","i","t","i","o","n">>, 37>>,
    <<<<"p","o","l","i","t","i","c","a","l"," ","r","i","g","h","t","s">>, 38>>,
    <<<<"f","r","e","e","d","o","m"," ","o","f"," ","m","o","v","e","m","e","n","t"," ","a","n","d"," ","r","e","s","i","d","e","n","c","e">>, 39>>,
    <<<<"p","r","o","t","e","c","t","i","o","n"," ","o","f"," ","r","i","g","h","t"," ","t","o"," ","p","r","o","p","e","r","t","y">>, 40>>,
    <<<<"l","a","b","o","u","r"," ","r","e","l","a","t","i","o","n","s">>, 41>>,
    <<<<"e","n","v","i","r","o","n","m","e","n","t">>, 42>>,
    <<<<"e","c","o","n","o","m","i","c"," ","a","n","d"," ","s","o","c","i","a","l"," ","r","i","g","h","t","s">>, 43>>,
    <<<<"l","a","n","g","u","a","g","e"," ","a","n","d"," ","c","u","l","t","u","r","e">>, 44>>,
    <<<<"f","a","m","i","l","y">>, 45>>,
    <<<<"c","o","n","s","u","m","e","r"," ","r","i","g","h","t","s">>, 46>>,
    <<<<"f","a","i","r"," ","a","d","m","i","n","i","s","t","r","a","t","i","v","e"," ","a","c","t","i","o","n">>, 47>>,
    <<<<"a","c","c","e","s","s"," ","t","o"," ","j","u","s","t","i","c","e">>, 48>>,
    <<<<"r","i","g","h","t","s"," ","o","f"," ","a","r","r","e","s","t","e","d"," ","p","e","r","s","o","n","s">>, 49>>,
    <<<<"f","a","i","r"," ","h","e","a","r","i","n","g">>, 50>>,
    <<<<"r","i","g","h","t","s"," ","o","f"," ","p","e","r","s","o","n","s"," ","d","e","t","a","i","n","e","d",","," ","h","e","l","d"," ","i","n"," ","c","u","s","t","o","d","y"," ","o","r"," ","i","m","p","r","i","s","o","n","e","d">>, 51>>,
    <<<<"i","n","t","e","r","p","r","e","t","a","t","i","o","n"," ","o","f"," ","t","h","i","s"," ","p","a","r","t">>, 52>>,
    <<<<"i","n","t","e","r","p","r","e","t","a","t","i","o","n"," ","o","f"," ","p","a","r","t">>, 52>>,
    <<<<"c","h","i","l","d","r","e","n">>, 53>>,
    <<<<"p","e","r","s","o","n","s"," ","w","i","t","h"," ","d","i","s","a","b","i","l","i","t","i","e","s">>, 54>>,
    <<<<"y","o","u","t","h">>, 55>>,
    <<<<"m","i","n","o","r","i","t","i","e","s"," ","a","n","d"," ","m","a","r","g","i","n","a","l","i","s","e","d"," ","g","r","o","u","p","s">>, 56>>,
    <<<<"o","l","d","e","r"," ","m","e","m","b","e","r","s"," ","o","f"," ","s","o","c","i","e","t","y">>, 57>>,
    <<<<"s","t","a","t","e"," ","o","f"," ","e","m","e","r","g","e","n","c","y">>, 58>>,
    <<<<"k","e","n","y","a"," ","n","a","t","i","o","n","a","l"," ","h","u","m","a","n"," ","r","i","g","h","t","s"," ","a","n","d"," ","e","q","u","a","l","i","t","y"," ","c","o","m","m","i","s","s","i","o","n">>, 59>>,
    <<<<"p","r","i","n","c","i","p","l","e","s"," ","o","f"," ","l","a","n","d"," ","p","o","l","i","c","y">>, 60>>,
    <<<<"c","l","a","s","s","i","f","i","c","a","t","i","o","n"," ","o","f"," ","l","a","n","d">>, 61>>,
    <<<<"p","u","b","l","i","c"," ","l","a","n","d">>, 62>>,
    <<<<"c","o","m","m","u","n","i","t","y"," ","l","a","n","d">>, 63>>,
    <<<<"p","r","i","v","a","t","e"," ","l","a","n","d">>, 64>>,
    <<<<"l","a","n","d","h","o","l","d","i","n","g"," ","b","y"," ","n","o","n","-","c","i","t","i","z","e","n","s">>, 65>>,
    <<<<"r","e","g","u","l","a","t","i","o","n"," ","o","f"," ","l","a","n","d"," ","u","s","e"," ","a","n","d"," ","p","r","o","p","e","r","t","y">>, 66>>,
    <<<<"n","a","t","i","o","n","a","l"," ","l","a","n","d"," ","c","o","m","m","i","s","s","i","o","n">>, 67>>,
    <<<<"l","e","g","i","s","l","a","t","i","o","n"," ","o","n"," ","l","a","n","d">>, 68>>,
    <<<<"o","b","l","i","g","a","t","i","o","n","s"," ","i","n"," ","r","e","s","p","e","c","t"," ","o","f"," ","t","h","e"," ","e","n","v","i","r","o","n","m","e","n","t">>, 69>>,
    <<<<"e","n","f","o","r","c","e","m","e","n","t"," ","o","f"," ","e","n","v","i","r","o","n","m","e","n","t","a","l"," ","r","i","g","h","t","s">>, 70>>,
    <<<<"a","g","r","e","e","m","e","n","t","s"," ","r","e","l","a","t","i","n","g"," ","t","o"," ","n","a","t","u","r","a","l"," ","r","e","s","o","u","r","c","e","s">>, 71>>,
    <<<<"l","e","g","i","s","l","a","t","i","o","n"," ","r","e","l","a","t","i","n","g"," ","t","o"," ","t","h","e"," ","e","n","v","i","r","o","n","m","e","n","t">>, 72>>,
    <<<<"r","e","s","p","o","n","s","i","b","i","l","i","t","i","e","s"," ","o","f"," ","l","e","a","d","e","r","s","h","i","p">>, 73>>,
    <<<<"o","a","t","h"," ","o","f"," ","o","f","f","i","c","e"," ","o","f"," ","s","t","a","t","e"," ","o","f","f","i","c","e","r","s">>, 74>>,
    <<<<"c","o","n","d","u","c","t"," ","o","f"," ","s","t","a","t","e"," ","o","f","f","i","c","e","r","s">>, 75>>,
    <<<<"f","i","n","a","n","c","i","a","l"," ","p","r","o","b","i","t","y"," ","o","f"," ","s","t","a","t","e"," ","o","f","f","i","c","e","r","s">>, 76>>,
    <<<<"r","e","s","t","r","i","c","t","i","o","n"," ","o","n"," ","a","c","t","i","v","i","t","i","e","s"," ","o","f"," ","s","t","a","t","e"," ","o","f","f","i","c","e","r","s">>, 77>>,
    <<<<"c","i","t","i","z","e","n","s","h","i","p"," ","a","n","d"," ","l","e","a","d","e","r","s","h","i","p">>, 78>>,
    <<<<"l","e","g","i","s","l","a","t","i","o","n"," ","t","o"," ","e","s","t","a","b","l","i","s","h"," ","t","h","e"," ","e","t","h","i","c","s"," ","a","n","d"," ","a","n","t","i","-","c","o","r","r","u","p","t","i","o","n"," ","c","o","m","m","i","s","s","i","o","n">>, 79>>,
    <<<<"l","e","g","i","s","l","a","t","i","o","n"," ","o","n"," ","l","e","a","d","e","r","s","h","i","p">>, 80>>,
    <<<<"g","e","n","e","r","a","l"," ","p","r","i","n","c","i","p","l","e","s"," ","f","o","r"," ","t","h","e"," ","e","l","e","c","t","o","r","a","l"," ","s","y","s","t","e","m">>, 81>>,
    <<<<"l","e","g","i","s","l","a","t","i","o","n"," ","o","n"," ","e","l","e","c","t","i","o","n","s">>, 82>>,
    <<<<"r","e","g","i","s","t","r","a","t","i","o","n"," ","a","s"," ","a"," ","v","o","t","e","r">>, 83>>,
    <<<<"c","a","n","d","i","d","a","t","e","s"," ","f","o","r"," ","e","l","e","c","t","i","o","n"," ","a","n","d"," ","p","o","l","i","t","i","c","a","l"," ","p","a","r","t","i","e","s"," ","t","o"," ","c","o","m","p","l","y"," ","w","i","t","h"," ","c","o","d","e"," ","o","f"," ","c","o","n","d","u","c","t">>, 84>>,
    <<<<"e","l","i","g","i","b","i","l","i","t","y"," ","t","o"," ","s","t","a","n","d"," ","a","s"," ","a","n"," ","i","n","d","e","p","e","n","d","e","n","t"," ","c","a","n","d","i","d","a","t","e">>, 85>>,
    <<<<"v","o","t","i","n","g">>, 86>>,
    <<<<"e","l","e","c","t","o","r","a","l"," ","d","i","s","p","u","t","e","s">>, 87>>,
    <<<<"i","n","d","e","p","e","n","d","e","n","t"," ","e","l","e","c","t","o","r","a","l"," ","a","n","d"," ","b","o","u","n","d","a","r","i","e","s"," ","c","o","m","m","i","s","s","i","o","n">>, 88>>,
    <<<<"d","e","l","i","m","i","t","a","t","i","o","n"," ","o","f"," ","e","l","e","c","t","o","r","a","l"," ","u","n","i","t","s">>, 89>>,
    <<<<"a","l","l","o","c","a","t","i","o","n"," ","o","f"," ","p","a","r","t","y"," ","l","i","s","t"," ","s","e","a","t","s">>, 90>>,
    <<<<"b","a","s","i","c"," ","r","e","q","u","i","r","e","m","e","n","t","s"," ","f","o","r"," ","p","o","l","i","t","i","c","a","l"," ","p","a","r","t","i","e","s">>, 91>>,
    <<<<"l","e","g","i","s","l","a","t","i","o","n"," ","o","n"," ","p","o","l","i","t","i","c","a","l"," ","p","a","r","t","i","e","s">>, 92>>,
    <<<<"e","s","t","a","b","l","i","s","h","m","e","n","t"," ","o","f"," ","p","a","r","l","i","a","m","e","n","t">>, 93>>,
    <<<<"r","o","l","e"," ","o","f"," ","p","a","r","l","i","a","m","e","n","t">>, 94>>,
    <<<<"r","o","l","e"," ","o","f"," ","t","h","e"," ","n","a","t","i","o","n","a","l"," ","a","s","s","e","m","b","l","y">>, 95>>,
    <<<<"r","o","l","e"," ","o","f"," ","t","h","e"," ","s","e","n","a","t","e">>, 96>>,
    <<<<"m","e","m","b","e","r","s","h","i","p"," ","o","f"," ","t","h","e"," ","n","a","t","i","o","n","a","l"," ","a","s","s","e","m","b","l","y">>, 97>>,
    <<<<"m","e","m","b","e","r","s","h","i","p"," ","o","f"," ","t","h","e"," ","s","e","n","a","t","e">>, 98>>,
    <<<<"q","u","a","l","i","f","i","c","a","t","i","o","n","s"," ","a","n","d"," ","d","i","s","q","u","a","l","i","f","i","c","a","t","i","o","n","s"," ","f","o","r"," ","e","l","e","c","t","i","o","n"," ","a","s"," ","m","e","m","b","e","r"," ","o","f"," ","p","a","r","l","i","a","m","e","n","t">>, 99>>,
    <<<<"p","r","o","m","o","t","i","o","n"," ","o","f"," ","r","e","p","r","e","s","e","n","t","a","t","i","o","n"," ","o","f"," ","m","a","r","g","i","n","a","l","i","s","e","d"," ","g","r","o","u","p","s">>, 100>>,
    <<<<"e","l","e","c","t","i","o","n"," ","o","f"," ","m","e","m","b","e","r","s"," ","o","f"," ","p","a","r","l","i","a","m","e","n","t">>, 101>>,
    <<<<"t","e","r","m"," ","o","f"," ","p","a","r","l","i","a","m","e","n","t">>, 102>>,
    <<<<"v","a","c","a","t","i","o","n"," ","o","f"," ","o","f","f","i","c","e"," ","o","f"," ","m","e","m","b","e","r"," ","o","f"," ","p","a","r","l","i","a","m","e","n","t">>, 103>>,
    <<<<"r","i","g","h","t"," ","o","f"," ","r","e","c","a","l","l">>, 104>>,
    <<<<"d","e","t","e","r","m","i","n","a","t","i","o","n"," ","o","f"," ","q","u","e","s","t","i","o","n","s"," ","o","f"," ","m","e","m","b","e","r","s","h","i","p">>, 105>>,
    <<<<"s","p","e","a","k","e","r","s"," ","a","n","d"," ","d","e","p","u","t","y"," ","s","p","e","a","k","e","r","s"," ","o","f"," ","p","a","r","l","i","a","m","e","n","t">>, 106>>,
    <<<<"p","r","e","s","i","d","i","n","g"," ","i","n"," ","p","a","r","l","i","a","m","e","n","t">>, 107>>,
    <<<<"p","a","r","t","y"," ","l","e","a","d","e","r","s">>, 108>>,
    <<<<"e","x","e","r","c","i","s","e"," ","o","f"," ","l","e","g","i","s","l","a","t","i","v","e"," ","p","o","w","e","r","s">>, 109>>,
    <<<<"b","i","l","l","s"," ","c","o","n","c","e","r","n","i","n","g"," ","c","o","u","n","t","y"," ","g","o","v","e","r","n","m","e","n","t">>, 110>>,
    <<<<"s","p","e","c","i","a","l"," ","b","i","l","l","s"," ","c","o","n","c","e","r","n","i","n","g"," ","c","o","u","n","t","y"," ","g","o","v","e","r","n","m","e","n","t","s">>, 111>>,
    <<<<"o","r","d","i","n","a","r","y"," ","b","i","l","l","s"," ","c","o","n","c","e","r","n","i","n","g"," ","c","o","u","n","t","y"," ","g","o","v","e","r","n","m","e","n","t","s">>, 112>>,
    <<<<"m","e","d","i","a","t","i","o","n"," ","c","o","m","m","i","t","t","e","e","s">>, 113>>,
    <<<<"m","o","n","e","y"," ","b","i","l","l","s">>, 114>>,
    <<<<"p","r","e","s","i","d","e","n","t","i","a","l"," ","a","s","s","e","n","t"," ","a","n","d"," ","r","e","f","e","r","r","a","l">>, 115>>,
    <<<<"c","o","m","i","n","g"," ","i","n","t","o"," ","f","o","r","c","e"," ","o","f"," ","l","a","w","s">>, 116>>,
    <<<<"p","o","w","e","r","s",","," ","p","r","i","v","i","l","e","g","e","s"," ","a","n","d"," ","i","m","m","u","n","i","t","i","e","s">>, 117>>,
    <<<<"p","u","b","l","i","c"," ","a","c","c","e","s","s"," ","a","n","d"," ","p","a","r","t","i","c","i","p","a","t","i","o","n">>, 118>>,
    <<<<"r","i","g","h","t"," ","t","o"," ","p","e","t","i","t","i","o","n"," ","p","a","r","l","i","a","m","e","n","t">>, 119>>,
    <<<<"o","f","f","i","c","i","a","l"," ","l","a","n","g","u","a","g","e","s"," ","o","f"," ","p","a","r","l","i","a","m","e","n","t">>, 120>>,
    <<<<"q","u","o","r","u","m">>, 121>>,
    <<<<"v","o","t","i","n","g"," ","i","n"," ","p","a","r","l","i","a","m","e","n","t">>, 122>>,
    <<<<"d","e","c","i","s","i","o","n","s"," ","o","f"," ","s","e","n","a","t","e">>, 123>>,
    <<<<"c","o","m","m","i","t","t","e","e","s"," ","a","n","d"," ","s","t","a","n","d","i","n","g"," ","o","r","d","e","r","s">>, 124>>,
    <<<<"p","o","w","e","r"," ","t","o"," ","c","a","l","l"," ","f","o","r"," ","e","v","i","d","e","n","c","e">>, 125>>,
    <<<<"l","o","c","a","t","i","o","n"," ","o","f"," ","s","i","t","t","i","n","g","s"," ","o","f"," ","p","a","r","l","i","a","m","e","n","t">>, 126>>,
    <<<<"p","a","r","l","i","a","m","e","n","t","a","r","y"," ","s","e","r","v","i","c","e"," ","c","o","m","m","i","s","s","i","o","n">>, 127>>,
    <<<<"c","l","e","r","k","s"," ","a","n","d"," ","s","t","a","f","f"," ","o","f"," ","p","a","r","l","i","a","m","e","n","t">>, 128>>,
    <<<<"p","r","i","n","c","i","p","l","e","s"," ","o","f"," ","e","x","e","c","u","t","i","v","e"," ","a","u","t","h","o","r","i","t","y">>, 129>>,
    <<<<"t","h","e"," ","n","a","t","i","o","n","a","l"," ","e","x","e","c","u","t","i","v","e">>, 130>>,
    <<<<"a","u","t","h","o","r","i","t","y"," ","o","f"," ","t","h","e"," ","p","r","e","s","i","d","e","n","t">>, 131>>,
    <<<<"f","u","n","c","t","i","o","n","s"," ","o","f"," ","t","h","e"," ","p","r","e","s","i","d","e","n","t">>, 132>>,
    <<<<"p","o","w","e","r"," ","o","f"," ","m","e","r","c","y">>, 133>>,
    <<<<"e","x","e","r","c","i","s","e"," ","o","f"," ","p","r","e","s","i","d","e","n","t","i","a","l"," ","p","o","w","e","r","s"," ","d","u","r","i","n","g"," ","t","e","m","p","o","r","a","r","y"," ","i","n","c","u","m","b","e","n","c","y">>, 134>>,
    <<<<"d","e","c","i","s","i","o","n","s"," ","o","f"," ","t","h","e"," ","p","r","e","s","i","d","e","n","t">>, 135>>,
    <<<<"e","l","e","c","t","i","o","n"," ","o","f"," ","t","h","e"," ","p","r","e","s","i","d","e","n","t">>, 136>>,
    <<<<"q","u","a","l","i","f","i","c","a","t","i","o","n","s"," ","a","n","d"," ","d","i","s","q","u","a","l","i","f","i","c","a","t","i","o","n","s"," ","f","o","r"," ","e","l","e","c","t","i","o","n"," ","a","s"," ","p","r","e","s","i","d","e","n","t">>, 137>>,
    <<<<"p","r","o","c","e","d","u","r","e"," ","a","t"," ","p","r","e","s","i","d","e","n","t","i","a","l"," ","e","l","e","c","t","i","o","n">>, 138>>,
    <<<<"d","e","a","t","h"," ","b","e","f","o","r","e"," ","a","s","s","u","m","i","n","g"," ","o","f","f","i","c","e">>, 139>>,
    <<<<"q","u","e","s","t","i","o","n","s"," ","a","s"," ","t","o"," ","v","a","l","i","d","i","t","y"," ","o","f"," ","p","r","e","s","i","d","e","n","t","i","a","l"," ","e","l","e","c","t","i","o","n">>, 140>>,
    <<<<"a","s","s","u","m","p","t","i","o","n"," ","o","f"," ","o","f","f","i","c","e"," ","o","f"," ","p","r","e","s","i","d","e","n","t">>, 141>>,
    <<<<"t","e","r","m"," ","o","f"," ","o","f","f","i","c","e"," ","o","f"," ","p","r","e","s","i","d","e","n","t">>, 142>>,
    <<<<"p","r","o","t","e","c","t","i","o","n"," ","f","r","o","m"," ","l","e","g","a","l"," ","p","r","o","c","e","e","d","i","n","g","s">>, 143>>,
    <<<<"r","e","m","o","v","a","l"," ","o","f"," ","p","r","e","s","i","d","e","n","t"," ","o","n"," ","g","r","o","u","n","d","s"," ","o","f"," ","i","n","c","a","p","a","c","i","t","y">>, 144>>,
    <<<<"r","e","m","o","v","a","l"," ","o","f"," ","p","r","e","s","i","d","e","n","t"," ","b","y"," ","i","m","p","e","a","c","h","m","e","n","t">>, 145>>,
    <<<<"v","a","c","a","n","c","y"," ","i","n"," ","t","h","e"," ","o","f","f","i","c","e"," ","o","f"," ","p","r","e","s","i","d","e","n","t">>, 146>>,
    <<<<"f","u","n","c","t","i","o","n","s"," ","o","f"," ","t","h","e"," ","d","e","p","u","t","y"," ","p","r","e","s","i","d","e","n","t">>, 147>>,
    <<<<"e","l","e","c","t","i","o","n"," ","a","n","d"," ","s","w","e","a","r","i","n","g","-","i","n"," ","o","f"," ","d","e","p","u","t","y"," ","p","r","e","s","i","d","e","n","t">>, 148>>,
    <<<<"v","a","c","a","n","c","y"," ","i","n"," ","t","h","e"," ","o","f","f","i","c","e"," ","o","f"," ","d","e","p","u","t","y"," ","p","r","e","s","i","d","e","n","t">>, 149>>,
    <<<<"r","e","m","o","v","a","l"," ","o","f"," ","d","e","p","u","t","y"," ","p","r","e","s","i","d","e","n","t">>, 150>>,
    <<<<"r","e","m","u","n","e","r","a","t","i","o","n"," ","a","n","d"," ","b","e","n","e","f","i","t","s"," ","o","f"," ","p","r","e","s","i","d","e","n","t"," ","a","n","d"," ","d","e","p","u","t","y"," ","p","r","e","s","i","d","e","n","t">>, 151>>,
    <<<<"c","a","b","i","n","e","t">>, 152>>,
    <<<<"d","e","c","i","s","i","o","n","s",","," ","r","e","s","p","o","n","s","i","b","i","l","i","t","y"," ","a","n","d"," ","a","c","c","o","u","n","t","a","b","i","l","i","t","y"," ","o","f"," ","t","h","e"," ","c","a","b","i","n","e","t">>, 153>>,
    <<<<"s","e","c","r","e","t","a","r","y"," ","t","o"," ","t","h","e"," ","c","a","b","i","n","e","t">>, 154>>,
    <<<<"p","r","i","n","c","i","p","a","l"," ","s","e","c","r","e","t","a","r","i","e","s">>, 155>>,
    <<<<"a","t","t","o","r","n","e","y","-","g","e","n","e","r","a","l">>, 156>>,
    <<<<"d","i","r","e","c","t","o","r"," ","o","f"," ","p","u","b","l","i","c"," ","p","r","o","s","e","c","u","t","i","o","n","s">>, 157>>,
    <<<<"r","e","m","o","v","a","l"," ","a","n","d"," ","r","e","s","i","g","n","a","t","i","o","n"," ","o","f"," ","d","i","r","e","c","t","o","r"," ","o","f"," ","p","u","b","l","i","c"," ","p","r","o","s","e","c","u","t","i","o","n","s">>, 158>>,
    <<<<"j","u","d","i","c","i","a","l"," ","a","u","t","h","o","r","i","t","y">>, 159>>,
    <<<<"i","n","d","e","p","e","n","d","e","n","c","e"," ","o","f"," ","t","h","e"," ","j","u","d","i","c","i","a","r","y">>, 160>>,
    <<<<"j","u","d","i","c","i","a","l"," ","o","f","f","i","c","e","s"," ","a","n","d"," ","o","f","f","i","c","e","r","s">>, 161>>,
    <<<<"s","y","s","t","e","m"," ","o","f"," ","c","o","u","r","t","s">>, 162>>,
    <<<<"s","u","p","r","e","m","e"," ","c","o","u","r","t">>, 163>>,
    <<<<"c","o","u","r","t"," ","o","f"," ","a","p","p","e","a","l">>, 164>>,
    <<<<"h","i","g","h"," ","c","o","u","r","t">>, 165>>,
    <<<<"a","p","p","o","i","n","t","m","e","n","t"," ","o","f"," ","c","h","i","e","f"," ","j","u","s","t","i","c","e",","," ","d","e","p","u","t","y"," ","c","h","i","e","f"," ","j","u","s","t","i","c","e"," ","a","n","d"," ","o","t","h","e","r"," ","j","u","d","g","e","s">>, 166>>,
    <<<<"t","e","n","u","r","e"," ","o","f"," ","o","f","f","i","c","e"," ","o","f"," ","t","h","e"," ","c","h","i","e","f"," ","j","u","s","t","i","c","e"," ","a","n","d"," ","o","t","h","e","r"," ","j","u","d","g","e","s">>, 167>>,
    <<<<"r","e","m","o","v","a","l"," ","f","r","o","m"," ","o","f","f","i","c","e">>, 168>>,
    <<<<"s","u","b","o","r","d","i","n","a","t","e"," ","c","o","u","r","t","s">>, 169>>,
    <<<<"k","a","d","h","i","s","'"," ","c","o","u","r","t","s">>, 170>>,
    <<<<"k","a","d","h","i","s","'"," ","c","o","u","r","t","s">>, 170>>,
    <<<<"e","s","t","a","b","l","i","s","h","m","e","n","t"," ","o","f"," ","t","h","e"," ","j","u","d","i","c","i","a","l"," ","s","e","r","v","i","c","e"," ","c","o","m","m","i","s","s","i","o","n">>, 171>>,
    <<<<"f","u","n","c","t","i","o","n","s"," ","o","f"," ","t","h","e"," ","j","u","d","i","c","i","a","l"," ","s","e","r","v","i","c","e"," ","c","o","m","m","i","s","s","i","o","n">>, 172>>,
    <<<<"j","u","d","i","c","i","a","r","y"," ","f","u","n","d">>, 173>>,
    <<<<"o","b","j","e","c","t","s"," ","o","f"," ","d","e","v","o","l","u","t","i","o","n">>, 174>>,
    <<<<"p","r","i","n","c","i","p","l","e","s"," ","o","f"," ","d","e","v","o","l","v","e","d"," ","g","o","v","e","r","n","m","e","n","t">>, 175>>,
    <<<<"c","o","u","n","t","y"," ","g","o","v","e","r","n","m","e","n","t","s">>, 176>>,
    <<<<"m","e","m","b","e","r","s","h","i","p"," ","o","f"," ","c","o","u","n","t","y"," ","a","s","s","e","m","b","l","y">>, 177>>,
    <<<<"s","p","e","a","k","e","r"," ","o","f"," ","a"," ","c","o","u","n","t","y"," ","a","s","s","e","m","b","l","y">>, 178>>,
    <<<<"c","o","u","n","t","y"," ","e","x","e","c","u","t","i","v","e"," ","c","o","m","m","i","t","t","e","e","s">>, 179>>,
    <<<<"e","l","e","c","t","i","o","n"," ","o","f"," ","c","o","u","n","t","y"," ","g","o","v","e","r","n","o","r"," ","a","n","d"," ","d","e","p","u","t","y"," ","c","o","u","n","t","y"," ","g","o","v","e","r","n","o","r">>, 180>>,
    <<<<"r","e","m","o","v","a","l"," ","o","f"," ","a"," ","c","o","u","n","t","y"," ","g","o","v","e","r","n","o","r">>, 181>>,
    <<<<"v","a","c","a","n","c","y"," ","i","n"," ","t","h","e"," ","o","f","f","i","c","e"," ","o","f"," ","c","o","u","n","t","y"," ","g","o","v","e","r","n","o","r">>, 182>>,
    <<<<"f","u","n","c","t","i","o","n","s"," ","o","f"," ","c","o","u","n","t","y"," ","e","x","e","c","u","t","i","v","e"," ","c","o","m","m","i","t","t","e","e","s">>, 183>>,
    <<<<"u","r","b","a","n"," ","a","r","e","a","s"," ","a","n","d"," ","c","i","t","i","e","s">>, 184>>,
    <<<<"l","e","g","i","s","l","a","t","i","v","e"," ","a","u","t","h","o","r","i","t","y"," ","o","f"," ","c","o","u","n","t","y"," ","a","s","s","e","m","b","l","i","e","s">>, 185>>,
    <<<<"r","e","s","p","e","c","t","i","v","e"," ","f","u","n","c","t","i","o","n","s"," ","a","n","d"," ","p","o","w","e","r","s"," ","o","f"," ","n","a","t","i","o","n","a","l"," ","a","n","d"," ","c","o","u","n","t","y"," ","g","o","v","e","r","n","m","e","n","t","s">>, 186>>,
    <<<<"t","r","a","n","s","f","e","r"," ","o","f"," ","f","u","n","c","t","i","o","n","s"," ","a","n","d"," ","p","o","w","e","r","s"," ","b","e","t","w","e","e","n"," ","l","e","v","e","l","s"," ","o","f"," ","g","o","v","e","r","n","m","e","n","t">>, 187>>,
    <<<<"b","o","u","n","d","a","r","i","e","s"," ","o","f"," ","c","o","u","n","t","i","e","s">>, 188>>,
    <<<<"c","o","o","p","e","r","a","t","i","o","n"," ","b","e","t","w","e","e","n"," ","n","a","t","i","o","n","a","l"," ","a","n","d"," ","c","o","u","n","t","y"," ","g","o","v","e","r","n","m","e","n","t","s">>, 189>>,
    <<<<"s","u","p","p","o","r","t"," ","f","o","r"," ","c","o","u","n","t","y"," ","g","o","v","e","r","n","m","e","n","t","s">>, 190>>,
    <<<<"c","o","n","f","l","i","c","t"," ","o","f"," ","l","a","w","s">>, 191>>,
    <<<<"s","u","s","p","e","n","s","i","o","n"," ","o","f"," ","a"," ","c","o","u","n","t","y"," ","g","o","v","e","r","n","m","e","n","t">>, 192>>,
    <<<<"s","u","s","p","e","n","s","i","o","n"," ","o","f"," ","c","o","u","n","t","y"," ","g","o","v","e","r","n","m","e","n","t">>, 192>>,
    <<<<"q","u","a","l","i","f","i","c","a","t","i","o","n","s"," ","f","o","r"," ","e","l","e","c","t","i","o","n"," ","a","s"," ","m","e","m","b","e","r"," ","o","f"," ","c","o","u","n","t","y"," ","a","s","s","e","m","b","l","y">>, 193>>,
    <<<<"v","a","c","a","t","i","o","n"," ","o","f"," ","o","f","f","i","c","e"," ","o","f"," ","m","e","m","b","e","r"," ","o","f"," ","c","o","u","n","t","y"," ","a","s","s","e","m","b","l","y">>, 194>>,
    <<<<"c","o","u","n","t","y"," ","a","s","s","e","m","b","l","y"," ","p","o","w","e","r"," ","t","o"," ","s","u","m","m","o","n"," ","w","i","t","n","e","s","s","e","s">>, 195>>,
    <<<<"p","u","b","l","i","c"," ","p","a","r","t","i","c","i","p","a","t","i","o","n"," ","a","n","d"," ","c","o","u","n","t","y"," ","a","s","s","e","m","b","l","y"," ","p","o","w","e","r","s",","," ","p","r","i","v","i","l","e","g","e","s"," ","a","n","d"," ","i","m","m","u","n","i","t","i","e","s">>, 196>>,
    <<<<"c","o","u","n","t","y"," ","a","s","s","e","m","b","l","y"," ","g","e","n","d","e","r"," ","b","a","l","a","n","c","e"," ","a","n","d"," ","d","i","v","e","r","s","i","t","y">>, 197>>,
    <<<<"c","o","u","n","t","y"," ","g","o","v","e","r","n","m","e","n","t"," ","d","u","r","i","n","g"," ","t","r","a","n","s","i","t","i","o","n">>, 198>>,
    <<<<"p","u","b","l","i","c","a","t","i","o","n"," ","o","f"," ","c","o","u","n","t","y"," ","l","e","g","i","s","l","a","t","i","o","n">>, 199>>,
    <<<<"l","e","g","i","s","l","a","t","i","o","n"," ","o","n"," ","c","h","a","p","t","e","r">>, 200>>,
    <<<<"p","r","i","n","c","i","p","l","e","s"," ","o","f"," ","p","u","b","l","i","c"," ","f","i","n","a","n","c","e">>, 201>>,
    <<<<"e","q","u","i","t","a","b","l","e"," ","s","h","a","r","i","n","g"," ","o","f"," ","n","a","t","i","o","n","a","l"," ","r","e","v","e","n","u","e">>, 202>>,
    <<<<"e","q","u","i","t","a","b","l","e"," ","s","h","a","r","e"," ","a","n","d"," ","o","t","h","e","r"," ","f","i","n","a","n","c","i","a","l"," ","l","a","w","s">>, 203>>,
    <<<<"e","q","u","a","l","i","s","a","t","i","o","n"," ","f","u","n","d">>, 204>>,
    <<<<"c","o","n","s","u","l","t","a","t","i","o","n"," ","o","n"," ","f","i","n","a","n","c","i","a","l"," ","l","e","g","i","s","l","a","t","i","o","n"," ","a","f","f","e","c","t","i","n","g"," ","c","o","u","n","t","i","e","s">>, 205>>,
    <<<<"c","o","n","s","o","l","i","d","a","t","e","d"," ","f","u","n","d"," ","a","n","d"," ","o","t","h","e","r"," ","p","u","b","l","i","c"," ","f","u","n","d","s">>, 206>>,
    <<<<"r","e","v","e","n","u","e"," ","f","u","n","d","s"," ","f","o","r"," ","c","o","u","n","t","y"," ","g","o","v","e","r","n","m","e","n","t","s">>, 207>>,
    <<<<"c","o","n","t","i","n","g","e","n","c","i","e","s"," ","f","u","n","d">>, 208>>,
    <<<<"p","o","w","e","r"," ","t","o"," ","i","m","p","o","s","e"," ","t","a","x","e","s"," ","a","n","d"," ","c","h","a","r","g","e","s">>, 209>>,
    <<<<"i","m","p","o","s","i","t","i","o","n"," ","o","f"," ","t","a","x">>, 210>>,
    <<<<"b","o","r","r","o","w","i","n","g"," ","b","y"," ","n","a","t","i","o","n","a","l"," ","g","o","v","e","r","n","m","e","n","t">>, 211>>,
    <<<<"b","o","r","r","o","w","i","n","g"," ","b","y"," ","c","o","u","n","t","i","e","s">>, 212>>,
    <<<<"l","o","a","n"," ","g","u","a","r","a","n","t","e","e","s"," ","b","y"," ","n","a","t","i","o","n","a","l"," ","g","o","v","e","r","n","m","e","n","t">>, 213>>,
    <<<<"p","u","b","l","i","c"," ","d","e","b","t">>, 214>>,
    <<<<"c","o","m","m","i","s","s","i","o","n"," ","o","n"," ","r","e","v","e","n","u","e"," ","a","l","l","o","c","a","t","i","o","n">>, 215>>,
    <<<<"f","u","n","c","t","i","o","n","s"," ","o","f"," ","t","h","e"," ","c","o","m","m","i","s","s","i","o","n"," ","o","n"," ","r","e","v","e","n","u","e"," ","a","l","l","o","c","a","t","i","o","n">>, 216>>,
    <<<<"d","i","v","i","s","i","o","n"," ","o","f"," ","r","e","v","e","n","u","e">>, 217>>,
    <<<<"a","n","n","u","a","l"," ","d","i","v","i","s","i","o","n"," ","a","n","d"," ","a","l","l","o","c","a","t","i","o","n"," ","o","f"," ","r","e","v","e","n","u","e"," ","b","i","l","l","s">>, 218>>,
    <<<<"t","r","a","n","s","f","e","r"," ","o","f"," ","e","q","u","i","t","a","b","l","e"," ","s","h","a","r","e">>, 219>>,
    <<<<"f","o","r","m",","," ","c","o","n","t","e","n","t"," ","a","n","d"," ","t","i","m","i","n","g"," ","o","f"," ","b","u","d","g","e","t","s">>, 220>>,
    <<<<"b","u","d","g","e","t"," ","e","s","t","i","m","a","t","e","s"," ","a","n","d"," ","a","n","n","u","a","l"," ","a","p","p","r","o","p","r","i","a","t","i","o","n"," ","b","i","l","l">>, 221>>,
    <<<<"e","x","p","e","n","d","i","t","u","r","e"," ","b","e","f","o","r","e"," ","a","n","n","u","a","l"," ","b","u","d","g","e","t"," ","i","s"," ","p","a","s","s","e","d">>, 222>>,
    <<<<"s","u","p","p","l","e","m","e","n","t","a","r","y"," ","a","p","p","r","o","p","r","i","a","t","i","o","n">>, 223>>,
    <<<<"c","o","u","n","t","y"," ","a","p","p","r","o","p","r","i","a","t","i","o","n"," ","b","i","l","l","s">>, 224>>,
    <<<<"f","i","n","a","n","c","i","a","l"," ","c","o","n","t","r","o","l">>, 225>>,
    <<<<"a","c","c","o","u","n","t","s"," ","a","n","d"," ","a","u","d","i","t"," ","o","f"," ","p","u","b","l","i","c"," ","e","n","t","i","t","i","e","s">>, 226>>,
    <<<<"p","r","o","c","u","r","e","m","e","n","t"," ","o","f"," ","p","u","b","l","i","c"," ","g","o","o","d","s"," ","a","n","d"," ","s","e","r","v","i","c","e","s">>, 227>>,
    <<<<"c","o","n","t","r","o","l","l","e","r"," ","o","f"," ","b","u","d","g","e","t">>, 228>>,
    <<<<"a","u","d","i","t","o","r","-","g","e","n","e","r","a","l">>, 229>>,
    <<<<"s","a","l","a","r","i","e","s"," ","a","n","d"," ","r","e","m","u","n","e","r","a","t","i","o","n"," ","c","o","m","m","i","s","s","i","o","n">>, 230>>,
    <<<<"c","e","n","t","r","a","l"," ","b","a","n","k"," ","o","f"," ","k","e","n","y","a">>, 231>>,
    <<<<"v","a","l","u","e","s"," ","a","n","d"," ","p","r","i","n","c","i","p","l","e","s"," ","o","f"," ","p","u","b","l","i","c"," ","s","e","r","v","i","c","e">>, 232>>,
    <<<<"t","h","e"," ","p","u","b","l","i","c"," ","s","e","r","v","i","c","e"," ","c","o","m","m","i","s","s","i","o","n">>, 233>>,
    <<<<"f","u","n","c","t","i","o","n","s"," ","a","n","d"," ","p","o","w","e","r","s"," ","o","f"," ","t","h","e"," ","p","u","b","l","i","c"," ","s","e","r","v","i","c","e"," ","c","o","m","m","i","s","s","i","o","n">>, 234>>,
    <<<<"s","t","a","f","f","i","n","g"," ","o","f"," ","c","o","u","n","t","y"," ","g","o","v","e","r","n","m","e","n","t","s">>, 235>>,
    <<<<"p","r","o","t","e","c","t","i","o","n"," ","o","f"," ","p","u","b","l","i","c"," ","o","f","f","i","c","e","r","s">>, 236>>,
    <<<<"t","e","a","c","h","e","r","s"," ","s","e","r","v","i","c","e"," ","c","o","m","m","i","s","s","i","o","n">>, 237>>,
    <<<<"p","r","i","n","c","i","p","l","e","s"," ","o","f"," ","n","a","t","i","o","n","a","l"," ","s","e","c","u","r","i","t","y">>, 238>>,
    <<<<"n","a","t","i","o","n","a","l"," ","s","e","c","u","r","i","t","y"," ","o","r","g","a","n","s">>, 239>>,
    <<<<"e","s","t","a","b","l","i","s","h","m","e","n","t"," ","o","f"," ","t","h","e"," ","n","a","t","i","o","n","a","l"," ","s","e","c","u","r","i","t","y"," ","c","o","u","n","c","i","l">>, 240>>,
    <<<<"e","s","t","a","b","l","i","s","h","m","e","n","t"," ","o","f"," ","d","e","f","e","n","c","e"," ","f","o","r","c","e","s"," ","a","n","d"," ","d","e","f","e","n","c","e"," ","c","o","u","n","c","i","l">>, 241>>,
    <<<<"e","s","t","a","b","l","i","s","h","m","e","n","t"," ","o","f"," ","k","e","n","y","a"," ","d","e","f","e","n","c","e"," ","f","o","r","c","e","s"," ","a","n","d"," ","d","e","f","e","n","c","e"," ","c","o","u","n","c","i","l">>, 241>>,
    <<<<"e","s","t","a","b","l","i","s","h","m","e","n","t"," ","o","f"," ","n","a","t","i","o","n","a","l"," ","i","n","t","e","l","l","i","g","e","n","c","e"," ","s","e","r","v","i","c","e">>, 242>>,
    <<<<"e","s","t","a","b","l","i","s","h","m","e","n","t"," ","o","f"," ","t","h","e"," ","n","a","t","i","o","n","a","l"," ","p","o","l","i","c","e"," ","s","e","r","v","i","c","e">>, 243>>,
    <<<<"o","b","j","e","c","t","s"," ","a","n","d"," ","f","u","n","c","t","i","o","n","s"," ","o","f"," ","t","h","e"," ","n","a","t","i","o","n","a","l"," ","p","o","l","i","c","e"," ","s","e","r","v","i","c","e">>, 244>>,
    <<<<"c","o","m","m","a","n","d"," ","o","f"," ","t","h","e"," ","n","a","t","i","o","n","a","l"," ","p","o","l","i","c","e"," ","s","e","r","v","i","c","e">>, 245>>,
    <<<<"n","a","t","i","o","n","a","l"," ","p","o","l","i","c","e"," ","s","e","r","v","i","c","e"," ","c","o","m","m","i","s","s","i","o","n">>, 246>>,
    <<<<"o","t","h","e","r"," ","p","o","l","i","c","e"," ","s","e","r","v","i","c","e","s">>, 247>>,
    <<<<"a","p","p","l","i","c","a","t","i","o","n"," ","o","f"," ","c","h","a","p","t","e","r">>, 248>>,
    <<<<"o","b","j","e","c","t","s",","," ","a","u","t","h","o","r","i","t","y"," ","a","n","d"," ","f","u","n","d","i","n","g"," ","o","f"," ","c","o","m","m","i","s","s","i","o","n","s"," ","a","n","d"," ","i","n","d","e","p","e","n","d","e","n","t"," ","o","f","f","i","c","e","s">>, 249>>,
    <<<<"c","o","m","p","o","s","i","t","i","o","n",","," ","a","p","p","o","i","n","t","m","e","n","t"," ","a","n","d"," ","t","e","r","m","s"," ","o","f"," ","o","f","f","i","c","e">>, 250>>,
    <<<<"r","e","m","o","v","a","l"," ","f","r","o","m"," ","o","f","f","i","c","e">>, 251>>,
    <<<<"g","e","n","e","r","a","l"," ","f","u","n","c","t","i","o","n","s"," ","a","n","d"," ","p","o","w","e","r","s">>, 252>>,
    <<<<"i","n","c","o","r","p","o","r","a","t","i","o","n"," ","o","f"," ","c","o","m","m","i","s","s","i","o","n","s"," ","a","n","d"," ","i","n","d","e","p","e","n","d","e","n","t"," ","o","f","f","i","c","e","s">>, 253>>,
    <<<<"r","e","p","o","r","t","i","n","g"," ","b","y"," ","c","o","m","m","i","s","s","i","o","n","s"," ","a","n","d"," ","i","n","d","e","p","e","n","d","e","n","t"," ","o","f","f","i","c","e","s">>, 254>>,
    <<<<"a","m","e","n","d","m","e","n","t"," ","o","f"," ","t","h","i","s"," ","c","o","n","s","t","i","t","u","t","i","o","n">>, 255>>,
    <<<<"a","m","e","n","d","m","e","n","t"," ","b","y"," ","p","a","r","l","i","a","m","e","n","t","a","r","y"," ","i","n","i","t","i","a","t","i","v","e">>, 256>>,
    <<<<"a","m","e","n","d","m","e","n","t"," ","b","y"," ","p","o","p","u","l","a","r"," ","i","n","i","t","i","a","t","i","v","e">>, 257>>,
    <<<<"e","n","f","o","r","c","e","m","e","n","t"," ","o","f"," ","t","h","i","s"," ","c","o","n","s","t","i","t","u","t","i","o","n">>, 258>>,
    <<<<"c","o","n","s","t","r","u","i","n","g"," ","t","h","i","s"," ","c","o","n","s","t","i","t","u","t","i","o","n">>, 259>>,
    <<<<"i","n","t","e","r","p","r","e","t","a","t","i","o","n">>, 260>>,
    <<<<"c","o","n","s","e","q","u","e","n","t","i","a","l"," ","l","e","g","i","s","l","a","t","i","o","n">>, 261>>,
    <<<<"t","r","a","n","s","i","t","i","o","n","a","l"," ","a","n","d"," ","c","o","n","s","e","q","u","e","n","t","i","a","l"," ","p","r","o","v","i","s","i","o","n","s">>, 262>>,
    <<<<"e","f","f","e","c","t","i","v","e"," ","d","a","t","e">>, 263>>,
    <<<<"r","e","p","e","a","l"," ","o","f"," ","p","r","e","v","i","o","u","s"," ","c","o","n","s","t","i","t","u","t","i","o","n">>, 264>> >>

\* The dictionary a display builds: a key written again keeps the place of
\* its first entry in the iteration order and takes the value of its last.
LastValue(entries, key) ==
    entries[CHOOSE p \in 1..Len(entries) :
               /\ entries[p][1] = key
               /\ \A q \in (p + 1)..Len(entries) : entries[q][1] # key][2]

\* The items are <<place of the key's first entry, key, value>>.
DictOf(entries) ==
    LET placed == [p \in 1..Len(entries) |->
                      <<p, entries[p][1], LastValue(entries, entries[p][1])>>]
        IsFirst(e) == \A q \in 1..(e[1] - 1) : entries[q][1] # e[2]
    IN  SelectSeq(placed, IsFirst)

Key(item) == item[2]
Value(item) == item[3]

\* get_article_number_map(): the items of the dictionary, in iteration order
article_map == DictOf(TableEntries)

\* article_map.get(normalized)
get(normalized) ==
    IF \E p \in 1..Len(article_map) : Key(article_map[p]) = normalized
    THEN Value(article_map[CHOOSE p \in 1..Len(article_map) :
                              Key(article_map[p]) = normalized])
    ELSE None

\* The test of line 170 on one item
PartialMatches(normalized, known_title) ==
    StartsWith(normalized, known_title) \/ StartsWith(known_title, normalized)

\* The partial matching loop, without its break: the last matching item wins.
partial_match_NoBreak(normalized) ==
    LET Matches(item) == PartialMatches(normalized, Key(item))
        found == SelectSeq(article_map, Matches)
    IN  IF found = <<>> THEN None ELSE Value(found[Len(found)])

\* The loop of lines 169-173 over article_map.items(): the number of the
\* first item that matches, None when the loop ends with found = False.
partial_match(normalized) ==
    LET Matches(item) == PartialMatches(normalized, Key(item))
        found == SelectSeq(article_map, Matches)
    IN  IF found = <<>> THEN None ELSE Value(found[1])

MaxArticles == 3

\* Confirmed titles (potential_title: the line without its final period,
\* stripped).
TitlePool == {
    <<"N","a","t","i","o","n","a","l",","," ","O","f","f","i","c","i","a","l"," ","a","n","d"," ","O","t","h","e","r"," ","L","a","n","g","u","a","g","e","s">>,
    <<"N","a","t","i","o","n","a","l",","," ","O","f",LigFi,"c","i","a","l"," ","a","n","d"," ","o","t","h","e","r"," ","L","a","n","g","u","a","g","e","s">>,
    <<"K","a","d","h","i","s","'"," ","c","o","u","r","t","s">>,
    <<"K","a","d","h","i","s",CurlyApos," ","c","o","u","r","t","s">>,
    <<"R","e","m","o","v","a","l"," ","f","r","o","m"," ","o","f","f","i","c","e">>,
    <<"V","o","t","i","n","g"," ","i","n">>,
    <<"A","t","t","o","r","n","e","y",EmDash,"G","e","n","e","r","a","l">>,
    <<"A","T","T","O","R","N","E","Y",EnDash,"G","E","N","E","R","A","L">>,
    <<"S","o","v","e","r","e","i","g","n","t","y"," "," ","o","f","\t","t","h","e"," ","p","e","o","p","l","e">>,
    <<"X","y","l","o","p","h","o","n","e","s">>,
    <<"I","n","t","e","r","p","r","e","t","a","t","i","o","n"," ","o","f">> }

\* Each title of the pool with what lines 161-173 find for it in the table:
\* the normalized title, article_map.get of it, and the result of the
\* partial matching loop.
Looked(t) ==
    LET normalized == normalize_title(t)
    IN  [potential_title |-> t,
         normalized      |-> normalized,
         article_num     |-> get(normalized),
         partial         |-> partial_match(normalized)]

LookedPool == {Looked(t) : t \in TitlePool}

InitTitles ==
    /\ mode = "parse_articles_improved"
    /\ pc = "first pass"
    /\ article_positions = <<>>
    /\ article_lines = <<>> /\ clauses = <<>> /\ current_clause_num = None
    /\ current_clause_text = <<>> /\ current_subclauses = <<>>
    /\ implicit_clause_num = 1
    /\ lines = <<>> /\ i = 0 /\ preamble_start = None /\ preamble_end = None
    /\ preamble = <<>> /\ content_text = <<>> /\ chapter_matches = <<>>
    /\ idx = 0 /\ chapters = <<>> /\ schedules = <<>>

\* The first pass has confirmed a line as an article title (lines 138-158)
\* and numbers it.
Confirmed ==
    /\ mode = "parse_articles_improved" /\ pc = "first pass"
    /\ Len(article_positions) < MaxArticles
    /\ UNCHANGED <<mode, pc, clauseVars, segVars>>

\* article_num is not None (lines 164-165)
ExactMatch(t) ==
    /\ Confirmed
    /\ t.article_num # None
    /\ article_positions' =
           Append(article_positions, <<t.potential_title, t.article_num>>)

\* the partial matching finds an item (lines 168-173)
PartialMatch(t) ==
    /\ Confirmed
    /\ t.article_num = None
    /\ t.partial # None
    /\ article_positions' =
           Append(article_positions, <<t.potential_title, t.partial>>)

\* sequential numbering as fallback (lines 174-177)
SequentialFallback(t) ==
    LET prev_num == IF article_positions # <<>>
                    THEN article_positions[Len(article_positions)][2] ELSE 0
    IN
    /\ Confirmed
    /\ t.article_num = None
    /\ t.partial = None
    /\ article_positions' =
           Append(article_positions, <<t.potential_title, prev_num + 1>>)

\* The first pass ends (line 128, i reaches len(lines)).
EndFirstPass ==
    /\ mode = "parse_articles_improved" /\ pc = "first pass"
    /\ pc' = "second pass"
    /\ UNCHANGED <<mode, article_positions, clauseVars, segVars>>

NextTitles ==
    \/ \E t \in LookedPool : ExactMatch(t)
    \/ \E t \in LookedPool : PartialMatch(t)
    \/ \E t \in LookedPool : SequentialFallback(t)
    \/ EndFirstPass

SpecTitles == InitTitles /\ [][NextTitles]_vars

-----------------------------------------------------------------------------
(* Claims about the title resolver.                                        *)

\* The k-th confirmed title, its number, and what the table holds for it.
TitleAt(k)  == article_positions[k][1]
NumberAt(k) == article_positions[k][2]
LookedAt(k) == CHOOSE r \in LookedPool : r.potential_title = TitleAt(k)

\* The number lines 160-177 give title r after a title numbered prev_num.
NumberAfter(r, prev_num) ==
    IF r.article_num # None THEN r.article_num
    ELSE IF r.partial # None THEN r.partial
    ELSE prev_num + 1

\* The normalization as section 4.3 of the specification words it:
\* lowercase, dashes to hyphen, curly quotes to straight quotes, the two
\* ligatures, runs of whitespace to one space, trimmed.
C5_Unify(title) ==
    LET t1 == lower(title)
        t2 == replace(replace(t1, EmDash, <<"-">>), EnDash, <<"-">>)
        t3 == replace(replace(t2, CurlyApos, <<"'">>), CurlyOpen, <<"'">>)
        t4 == replace(replace(t3, LigFi, <<"f", "i">>), LigFl, <<"f", "l">>)
    IN  strip(sub_whitespace(t4))

\* C5: two titles that differ only in letter case, dash, quote, ligature or
\* whitespace variants have the same normalize_title, and a confirmed title
\* gets the number any such variant of it would get in its place.
C5_VariantsResolveAlike ==
    \A k \in 1..Len(article_positions) :
        \A r \in LookedPool :
            C5_Unify(r.potential_title) = C5_Unify(TitleAt(k)) =>
                /\ r.normalized = LookedAt(k).normalized
                /\ NumberAfter(r, IF k = 1 THEN 0 ELSE NumberAt(k - 1)) = NumberAt(k)

\* C6: a title that is a key of the table resolves to the number of every
\* entry written for that key (no entry is shadowed by a later entry with
\* the same key and another number).
C6_NoEntryShadowed ==
    \A k \in 1..Len(article_positions) :
        \A p \in 1..Len(TableEntries) :
            TableEntries[p][1] = LookedAt(k).normalized =>
                TableEntries[p][2] = NumberAt(k)

\* C7: every confirmed title is numbered by the first tier that applies:
\* (a) the table's number for the normalized title when it is a key;
\* (b) else the number of the first item, in table order, whose key is a
\*     prefix of the normalized title or has it as a prefix;
\* (c) else the number of the previous confirmed title plus 1, or 1 for the
\*     first confirmed title.
C7_ThreeTiers ==
    \A k \in 1..Len(article_positions) :
        LET n == LookedAt(k).normalized
            Prefixed(p) == \/ StartsWith(n, Key(article_map[p]))
                           \/ StartsWith(Key(article_map[p]), n)
            items == 1..Len(article_map)
        IN  IF \E p \in items : Key(article_map[p]) = n
            THEN \E p \in items : /\ Key(article_map[p]) = n
                                  /\ NumberAt(k) = Value(article_map[p])
            ELSE IF \E p \in items : Prefixed(p)
            THEN \E p \in items : /\ Prefixed(p)
                                  /\ \A q \in 1..(p - 1) : ~Prefixed(q)
                                  /\ NumberAt(k) = Value(article_map[p])
            ELSE NumberAt(k) = IF k = 1 THEN 1 ELSE NumberAt(k - 1) + 1

\* "Voting in" was numbered 86 by partial matching ("voting" comes before
\* "voting in parliament"), "Xylophones" 87 as the fallback after it, and
\* "Removal from office" by its key.
C7_Witness ==
    /\ mode = "parse_articles_improved"
    /\ Len(article_positions) = 3
    /\ article_positions[1] = <<<<"V","o","t","i","n","g"," ","i","n">>, 86>>
    /\ article_positions[2] = <<<<"X","y","l","o","p","h","o","n","e","s">>, 87>>
    /\ LookedAt(3).article_num # None
    /\ LookedAt(1).article_num = None /\ LookedAt(1).partial = 86
    /\ LookedAt(2).article_num = None /\ LookedAt(2).partial = None

-----------------------------------------------------------------------------
(* parse_constitution: the preamble loop, the preamble text, the chapter   *)
(* headers and the chapter loop.  Indices and offsets are Python's (from   *)
(* 0); the element of index j of a sequence s is s[j + 1].                 *)

\* the threshold of line 36
TocThreshold == 200

\* The number of lines of the document.
DocLen == 205

PREAMBLE    == <<"P","R","E","A","M","B","L","E">>
CHAPTER_ONE == <<"C","H","A","P","T","E","R"," ","O","N","E">>
CHAPTER     == <<"C","H","A","P","T","E","R">>
FIRST_SCHEDULE == <<"F","I","R","S","T"," ","S","C","H","E","D","U","L","E">>
RunningHeader  == <<"C","o","n","s","t","i","t","u","t","i","o","n"," ","o","f"," ","K","e","n","y","a">>
DocumentTitle  == <<"T","H","E"," ","C","O","N","S","T","I","T","U","T","I","O","N"," ","O","F"," ","K","E","N","Y","A">>

\* The ordinal words of chapter_pattern, in the order of its alternation;
\* word_to_num maps the k-th of them to k.
OrdinalWords == <<
    <<"O","N","E">>,
    <<"T","W","O">>,
    <<"T","H","R","E","E">>,
    <<"F","O","U","R">>,
    <<"F","I","V","E">>,
    <<"S","I","X">>,
    <<"S","E","V","E","N">>,
    <<"E","I","G","H","T">>,
    <<"N","I","N","E">>,
    <<"T","E","N">>,
    <<"E","L","E","V","E","N">>,
    <<"T","W","E","L","V","E">>,
    <<"T","H","I","R","T","E","E","N">>,
    <<"F","O","U","R","T","E","E","N">>,
    <<"F","I","F","T","E","E","N">>,
    <<"S","I","X","T","E","E","N">>,
    <<"S","E","V","E","N","T","E","E","N">>,
    <<"E","I","G","H","T","E","E","N">> >>

word_to_num(word) == CHOOSE k \in 1..Len(OrdinalWords) : OrdinalWords[k] = word

\* text[start:end]
Slice(text, start, end) == SubSeq(text, start + 1, end)

\* whether the literal lit is in text at offset p
LitAt(text, p, lit) ==
    /\ p + Len(lit) <= Len(text)
    /\ text[p + 1] = lit[1]
    /\ Slice(text, p, p + Len(lit)) = lit

\* re.search of a literal in text[from:]: the offset of its first
\* occurrence, None when there is none
Search(text, lit, from) ==
    LET hits == {p \in from..Len(text) : LitAt(text, p, lit)}
    IN  IF hits = {} THEN None
        ELSE CHOOSE p \in hits : \A q \in hits : p <= q

\* chapter_pattern matched at offset p of text:
\* CHAPTER\s+(ONE|...|EIGHTEEN)[EmDash or -]([^\n]+)
ChapterMatchAt(text, p) ==
    LET w == Run(text, p + Len(CHAPTER) + 1, Whitespace)
        q == p + Len(CHAPTER) + w                      \* where the word is
        fits == {k \in 1..Len(OrdinalWords) :
                    /\ LitAt(text, q, OrdinalWords[k])
                    /\ q + Len(OrdinalWords[k]) + 1 < Len(text) + 1
                    /\ text[q + Len(OrdinalWords[k]) + 1] \in {EmDash, "-"}
                    /\ q + Len(OrdinalWords[k]) + 2 <= Len(text)
                    /\ text[q + Len(OrdinalWords[k]) + 2] # NL}
        k == CHOOSE f \in fits : \A g \in fits : f <= g
        t == q + Len(OrdinalWords[k]) + 1               \* where group 2 is
        e == t + Run(text, t + 1, {text[j] : j \in 1..Len(text)} \ {NL})
    IN  IF LitAt(text, p, CHAPTER) /\ w >= 1 /\ fits # {}
        THEN [matched |-> TRUE, start |-> p, end |-> e,
              g1 |-> OrdinalWords[k], g2 |-> Slice(text, t, e)]
        ELSE [matched |-> FALSE, start |-> p, end |-> p, g1 |-> <<>>, g2 |-> <<>>]

\* list(re.finditer(chapter_pattern, text)) from offset from on: the
\* matches from left to right, each search starting where the last match
\* ended
RECURSIVE finditer(_, _)
finditer(text, from) ==
    LET starts == {p \in from..Len(text) : ChapterMatchAt(text, p).matched}
        p == CHOOSE s \in starts : \A r \in starts : s <= r
        m == ChapterMatchAt(text, p)
    IN  IF starts = {} THEN <<>> ELSE <<m>> \o finditer(text, m.end)

-----------------------------------------------------------------------------
(* parse_schedules.                                                        *)

\* schedule_info of lines 591-598
schedule_info == <<
    [number |-> 1, title |-> "COUNTIES", reference |-> "Article 6(1)"],
    [number |-> 2, title |-> "NATIONAL SYMBOLS", reference |-> "Article 9(2)"],
    [number |-> 3, title |-> "NATIONAL OATHS AND AFFIRMATIONS",
     reference |-> "Articles 74, 141(3), 148(5), 152(4)"],
    [number |-> 4,
     title |-> "DISTRIBUTION OF FUNCTIONS BETWEEN NATIONAL AND COUNTY GOVERNMENTS",
     reference |-> "Articles 185(2), 186(1), 187(2)"],
    [number |-> 5, title |-> "LEGISLATION TO BE ENACTED BY PARLIAMENT",
     reference |-> "Article 261(1)"],
    [number |-> 6, title |-> "TRANSITIONAL AND CONSEQUENTIAL PROVISIONS",
     reference |-> "Article 262"] >>

\* the length of the prefix of schedule_text that line 620 scans
ScanLimit == 8000

\* the greatest county number line 624 accepts
MaxCounty == 47

\* [A-Za-z\s\-]
NameChars ==
    {UpperSeq[k] : k \in 1..26} \cup {LowerSeq[k] : k \in 1..26}
        \cup Whitespace \cup {"-"}

\* the look-ahead (?=\n|\d+\.|$) at offset e of text
CountyLookAhead(text, e) ==
    LET d == Run(text, e + 1, DigitSet)
    IN  \/ e = Len(text)
        \/ text[e + 1] = NL
        \/ d >= 1 /\ e + d + 1 <= Len(text) /\ text[e + d + 1] = "."

\* county_pattern matched at offset p of text:
\* (\d+)\.\s+([A-Za-z\s\-]+?)(?=\n|\d+\.|$).  The digits are a whole run;
\* \s+ takes v characters of the whitespace run, the most that let the rest
\* match; the name is the shortest run of name characters, from there, that
\* the look-ahead follows.
CountyMatchAt(text, p) ==
    LET d  == Run(text, p + 1, DigitSet)
        w  == Run(text, p + d + 2, Whitespace)
        NameEnds(v) ==
            LET q == p + d + 1 + v
            IN  {n \in 1..Run(text, q + 1, NameChars) : CountyLookAhead(text, q + n)}
        fits == {v \in 1..w : NameEnds(v) # {}}
        v  == CHOOSE f \in fits : \A g \in fits : f >= g
        q  == p + d + 1 + v
        n  == CHOOSE f \in NameEnds(v) : \A g \in NameEnds(v) : f <= g
    IN  IF /\ d >= 1
           /\ p + d + 1 <= Len(text)
           /\ text[p + d + 1] = "."
           /\ fits # {}
        THEN [matched |-> TRUE, start |-> p, end |-> q + n,
              g1 |-> Slice(text, p, p + d), g2 |-> Slice(text, q, q + n)]
        ELSE [matched |-> FALSE, start |-> p, end |-> p, g1 |-> <<>>, g2 |-> <<>>]

\* re.finditer(county_pattern, text) from offset from on
RECURSIVE county_finditer(_, _)
county_finditer(text, from) ==
    LET starts == {p \in from..(Len(text) - 1) :
                      text[p + 1] \in DigitSet /\ CountyMatchAt(text, p).matched}
        p == CHOOSE s \in starts : \A r \in starts : s <= r
        m == CountyMatchAt(text, p)
    IN  IF starts = {} THEN <<>> ELSE <<m>> \o county_finditer(text, m.end)

\* The test of line 624 on a match.
CountyKept(match) ==
    int(match.g1) <= MaxCounty /\ strip(match.g2) # <<>>

\* The county of lines 625-628 for a match.
CountyOf(match) == [number |-> int(match.g1), name |-> strip(match.g2)]

\* The list counties, with the loop left at the first match that line 624
\* rejects.
counties_of_StopsAtOmitted(schedule_text) ==
    LET scanned == Slice(schedule_text, 0,
                         IF Len(schedule_text) < ScanLimit
                         THEN Len(schedule_text) ELSE ScanLimit)
        found == county_finditer(scanned, 0)
        rejected == {k \in 1..Len(found) : ~CountyKept(found[k])}
        taken == IF rejected = {} THEN found
                 ELSE SubSeq(found, 1,
                             (CHOOSE k \in rejected : \A r \in rejected : k <= r) - 1)
    IN  [k \in 1..Len(taken) |-> CountyOf(taken[k])]

\* The list counties of lines 618-630 for schedule_text.
counties_of(schedule_text) ==
    LET scanned == Slice(schedule_text, 0,
                         IF Len(schedule_text) < ScanLimit
                         THEN Len(schedule_text) ELSE ScanLimit)
        kept == SelectSeq(county_finditer(scanned, 0), CountyKept)
    IN  [k \in 1..Len(kept) |-> CountyOf(kept[k])]

\* The payloads of lines 633-695 for the schedules 2 to 6.
FixedContent(number) ==
    CASE number = 2 ->
           [nationalFlag |-> [description |-> "Three major strips of equal width coloured from top to bottom black, red and green and separated by narrow white strips, with a symmetrical shield and white spears superimposed centrally."],
            nationalAnthem |-> [verses |-> <<
                [number |-> 1,
                 kiswahili |-> "Ee Mungu nguvu yetu, Ilete baraka kwetu. Haki iwe ngao na mlinzi, Natukae na undugu. Amani na uhuru, Raha tupate na ustawi.",
                 english |-> "O God of all creation, Bless this our land and nation. Justice be our shield and defender, May we dwell in unity. Peace and liberty, Plenty be found within our borders."],
                [number |-> 2,
                 kiswahili |-> "Amkeni ndugu zetu, Tufanye sote bidii. Nasi tujitoe kwa nguvu, Nchi yetu ya Kenya. Tunayoipenda, Tuwe tayari kuilinda.",
                 english |-> "Let one and all arise, With hearts both strong and true. Service be our earnest endeavour, And our Homeland of Kenya. Heritage of splendour, Firm may we stand to defend."],
                [number |-> 3,
                 kiswahili |-> "Natujenge taifa letu, Ee, ndio wajibu wetu. Kenya istahili heshima, Tuungane mikono. Pamoja kazini, Kila siku tuwe na shukrani.",
                 english |-> "Let all with one accord, In common bond united. Build this our nation together, And the glory of Kenya. The fruit of our labour, Fill every heart with thanksgiving."] >>],
            coatOfArms |-> [description |-> "The Coat of Arms features two lions holding spears, a shield with colors of the Kenyan flag, and a rooster holding an axe."],
            publicSeal |-> [description |-> "The Public Seal of Kenya."]]
      [] number = 3 ->
           [oaths |-> <<
                [title |-> "Oath/Affirmation of Office of President", reference |-> "Article 141(3)"],
                [title |-> "Oath/Affirmation of Office of Deputy President", reference |-> "Article 148(5)"],
                [title |-> "Oath/Affirmation of Office of Cabinet Secretary", reference |-> "Article 152(4)"],
                [title |-> "Oath/Affirmation of Office of Member of Parliament", reference |-> "Article 74"],
                [title |-> "Oath/Affirmation of Office of State Officer", reference |-> "Article 74"] >>]
      [] number = 4 ->
           [nationalGovernment |-> "Functions assigned to the National Government",
            countyGovernments |-> "Functions assigned to the County Governments"]
      [] number = 5 ->
           [description |-> "List of legislation required to be enacted by Parliament"]
      [] number = 6 ->
           [description |-> "Transitional and consequential provisions for the implementation of this Constitution"]

\* schedule_obj of lines 608-695 for a record of schedule_info
schedule_obj(info, schedule_text) ==
    [number    |-> info.number,
     title     |-> info.title,
     reference |-> info.reference,
     content   |-> IF info.number = 1
                   THEN [counties |-> counties_of(schedule_text)]
                   ELSE FixedContent(info.number)]

\* parse_schedules(text) with every record but the first dropped when the
\* schedule section has no county.
parse_schedules_Partial(text) ==
    LET first_schedule_match == Search(text, FIRST_SCHEDULE, 0)
        schedule_text == Slice(text, first_schedule_match, Len(text))
    IN  IF first_schedule_match = None THEN <<>>
        ELSE IF counties_of(schedule_text) = <<>>
        THEN <<schedule_obj(schedule_info[1], schedule_text)>>
        ELSE [k \in 1..Len(schedule_info) |->
                 schedule_obj(schedule_info[k], schedule_text)]

\* parse_schedules(content_text), lines 587-699
parse_schedules(text) ==
    LET first_schedule_match == Search(text, FIRST_SCHEDULE, 0)
        schedule_text == Slice(text, first_schedule_match, Len(text))
    IN  IF first_schedule_match = None THEN <<>>
        ELSE [k \in 1..Len(schedule_info) |->
                 schedule_obj(schedule_info[k], schedule_text)]

-----------------------------------------------------------------------------
(* parse_articles_improved: the page markers, the title scan with its      *)
(* look-ahead, the numbering and the body slicing.                         *)

\* text.split('\n')
split(text) ==
    LET IsBreak(p) == text[p] = NL
        breaks == SelectSeq([p \in 1..Len(text) |-> p], IsBreak)
        n == Len(breaks)
    IN  [k \in 1..(n + 1) |->
            SubSeq(text,
                   IF k = 1 THEN 1 ELSE breaks[k - 1] + 1,
                   IF k = n + 1 THEN Len(text) ELSE breaks[k] - 1)]

\* The pattern of line 115 matched at offset p of text:
\* Constitution of Kenya,?\s*2010\s*\d*
PageMarkerMatchAt(text, p) ==
    LET a == p + Len(PageMarker)
        c == IF a < Len(text) /\ text[a + 1] = "," THEN a + 1 ELSE a
        y == c + Run(text, c + 1, Whitespace)
        z == y + 4 + Run(text, y + 5, Whitespace)
        e == z + Run(text, z + 1, DigitSet)
    IN  IF LitAt(text, p, PageMarker) /\ LitAt(text, y, <<"2","0","1","0">>)
        THEN [matched |-> TRUE, start |-> p, end |-> e]
        ELSE [matched |-> FALSE, start |-> p, end |-> p]

\* re.sub of line 115: text from offset from on, without the page markers
RECURSIVE clean_page_markers(_, _)
clean_page_markers(text, from) ==
    LET starts == {p \in from..Len(text) : PageMarkerMatchAt(text, p).matched}
        p == CHOOSE s \in starts : \A r \in starts : s <= r
    IN  IF starts = {} THEN Slice(text, from, Len(text))
        ELSE Slice(text, from, p)
                 \o clean_page_markers(text, PageMarkerMatchAt(text, p).end)

PartHeader(line) ==
    StartsWith(line, <<"P","a","r","t"," ">>) \/ StartsWith(line, <<"P","A","R","T"," ">>)

\* The condition of lines 138-142 on the stripped line: a candidate title.
IsCandidate(line) ==
    /\ EndsWith(line, <<".">>)
    /\ ~StartsWith(line, <<"(">>)
    /\ ~(Run(line, 1, DigitSet) >= 1 /\ Run(line, 1, DigitSet) < Len(line)
            /\ line[Run(line, 1, DigitSet) + 1] = ".")
    /\ Len(line) > 3
    /\ Len(line) < 150

\* The condition of lines 154-158 on the next non-blank line.
LooksLikeBody(next_line) ==
    \/ StartsWith(next_line, <<"(","1",")">>)
    \/ StartsWith(next_line, <<"(">>)
    \/ /\ next_line # <<>>
       /\ ~EndsWith(next_line, <<".">>)
       /\ ~PartHeader(next_line)

\* Lines 129-158 for the line of index k of body_lines: whether the line is
\* confirmed as an article title.
IsConfirmed(body_lines, k) ==
    LET line == strip(body_lines[k + 1])
        later == {j \in (k + 1)..(Len(body_lines) - 1) : strip(body_lines[j + 1]) # <<>>}
        j == CHOOSE f \in later : \A g \in later : f <= g
    IN  /\ line # <<>>
        /\ ~PartHeader(line)
        /\ IsCandidate(line)
        /\ later # {}
        /\ LooksLikeBody(strip(body_lines[j + 1]))

\* potential_title of line 144
potential_title(line) == strip(SubSeq(strip(line), 1, Len(strip(line)) - 1))

\* The number of lines 160-177 for a confirmed title, after a title
\* numbered prev_num (0 when it is the first).
article_num_of(title, prev_num) ==
    LET r == Looked(title)
    IN  IF r.article_num # None THEN r.article_num
        ELSE IF r.partial # None THEN r.partial
        ELSE prev_num + 1

\* The list article_positions after the first pass over body_lines, the
\* entry of a title being <<index of its line, title, number>>; found are
\* the indices of the confirmed lines, in order, and n the number of them
\* to take.
RECURSIVE first_pass(_, _, _)
first_pass(body_lines, found, n) ==
    IF n = 0 THEN <<>>
    ELSE LET before == first_pass(body_lines, found, n - 1)
             prev_num == IF before # <<>> THEN before[Len(before)][3] ELSE 0
             title == potential_title(body_lines[found[n] + 1])
         IN  Append(before, <<found[n], title, article_num_of(title, prev_num)>>)

\* parse_articles_improved(chapter_content, chapter_num), with the
\* articles in the order of their numbers.
parse_articles_Sorted(chapter_content) ==
    LET body_lines == split(clean_page_markers(chapter_content, 0))
        Confirms(k) == IsConfirmed(body_lines, k)
        found == SelectSeq([k \in 1..Len(body_lines) |-> k - 1], Confirms)
        positions == first_pass(body_lines, found, Len(found))
        Rank(k) == Cardinality({j \in 1..Len(positions) :
                       \/ positions[j][3] < positions[k][3]
                       \/ positions[j][3] = positions[k][3] /\ j <= k})
        At(r) == CHOOSE k \in 1..Len(positions) : Rank(k) = r
    IN  [r \in 1..Len(positions) |->
            [number |-> positions[At(r)][3],
             title  |-> positions[At(r)][2],
             article_lines |->
                 Slice(body_lines, positions[At(r)][1] + 1,
                       IF At(r) < Len(positions) THEN positions[At(r) + 1][1]
                       ELSE Len(body_lines))]]

\* parse_articles_improved(chapter_content, chapter_num), lines 110-201.
\* An article is given with article_lines, the lines parse_clauses makes
\* its clauses of (line 190).
parse_articles_improved(chapter_content) ==
    LET body_lines == split(clean_page_markers(chapter_content, 0))
        Confirms(k) == IsConfirmed(body_lines, k)
        found == SelectSeq([k \in 1..Len(body_lines) |-> k - 1], Confirms)
        positions == first_pass(body_lines, found, Len(found))
    IN  [k \in 1..Len(positions) |->
            [number |-> positions[k][3],
             title  |-> positions[k][2],
             article_lines |->
                 Slice(body_lines, positions[k][1] + 1,
                       IF k < Len(positions) THEN positions[k + 1][1]
                       ELSE Len(body_lines))]]

\* The lines of the documents: body text, a PREAMBLE line, and two chapter
\* headers (with the em dash and with the hyphen).
BodyLine == <<"x">>
DocLinePool == {
    BodyLine,
    <<" ","P","R","E","A","M","B","L","E","\t">>,
    <<"C","H","A","P","T","E","R"," ","O","N","E",EmDash,"A">>,
    <<"C","H","A","P","T","E","R"," ","T","W","O","-","B">> }

\* The indices where a document has a line other than body text: one in
\* the table of contents, and the threshold and the indices after it.
MarkedIndices ==
    {50, TocThreshold, TocThreshold + 1, TocThreshold + 2, TocThreshold + 3}

Documents ==
    {[j \in 1..DocLen |-> IF j - 1 \in MarkedIndices THEN f[j - 1] ELSE BodyLine] :
        f \in [MarkedIndices -> DocLinePool]}

InitSegment ==
    /\ mode = "parse_constitution"
    /\ pc = "preamble loop"
    /\ lines \in Documents
    /\ i = 0
    /\ preamble_start = None
    /\ preamble_end = None
    /\ preamble = <<>>
    /\ content_text = <<>>
    /\ chapter_matches = <<>>
    /\ idx = 0
    /\ chapters = <<>>
    /\ schedules = <<>>
    /\ article_positions = <<>>
    /\ article_lines = <<>> /\ clauses = <<>> /\ current_clause_num = None
    /\ current_clause_text = <<>> /\ current_subclauses = <<>>
    /\ implicit_clause_num = 1

\* A line of body text long enough for the scanned prefix of a schedule
\* section that begins one line before it to end within the line after it.
Padding == [j \in 1..(ScanLimit - 23) |-> "x"]

\* The short documents: a preamble, one chapter of two articles and three
\* county lines after the FIRST SCHEDULE marker, and the variants of it that
\* take another line of the same place.  DocSlots[j] holds the lines a
\* document may have at index j - 1.
DocSlots == <<
    \* the PREAMBLE line, or a first mention of the schedules
    {<<"P","R","E","A","M","B","L","E">>,
     <<"F","I","R","S","T"," ","S","C","H","E","D","U","L","E">>},
    \* the text of the preamble
    {<<"W","e",","," ","t","h","e"," ","p","e","o","p","l","e",".">>},
    \* an earlier chapter header, or none
    {<<"C","H","A","P","T","E","R"," ","T","W","O","-","B">>,
     <<"x">>},
    \* the chapter header
    {<<"C","H","A","P","T","E","R"," ","O","N","E",EmDash,"A">>},
    \* the title of the first article
    {<<"V","o","t","i","n","g"," ","i","n",".">>},
    \* its body: an explicit clause, or a sentence
    {<<"(","1",")"," ","F","i","r","s","t"," ","p","a","r","t",".">>,
     <<"P","l","a","i","n"," ","s","t","a","t","e","m","e","n","t"," ","o","n","e",".">>},
    \* the title of the second article
    {<<"S","o","v","e","r","e","i","g","n","t","y"," ","o","f"," ","t","h","e"," ","p","e","o","p","l","e",".">>,
     <<"X","y","l","o","p","h","o","n","e","s",".">>},
    \* its body: running text, without and with a final period
    {<<"a"," ","p","e","r","s","o","n">>,
     <<"P","l","a","i","n"," ","s","t","a","t","e","m","e","n","t"," ","t","w","o",".">>},
    \* the FIRST SCHEDULE marker, or a page marker
    {<<"F","I","R","S","T"," ","S","C","H","E","D","U","L","E">>,
     <<"C","o","n","s","t","i","t","u","t","i","o","n"," ","o","f"," ","K","e","n","y","a",","," ","2","0","1","0">>},
    \* three county lines; the first may be out of range, not a number, or
    \* the padding; the second may have a name the pattern does not take, or
    \* no name; the third may have two counties, or no number
    {<<"1","."," ","M","o","m","b","a","s","a">>,
     <<"4","8","."," ","N","o","w","h","e","r","e">>,
     <<"0","x","."," ","B","a","d">>,
     Padding},
    {<<"2","."," ","T","a","n","a"," ","R","i","v","e","r">>,
     <<"2","."," ","M","u","r","a","n","g","'","a">>,
     <<"2",".">>},
    {<<"3","."," ","K","i","l","i","f","i">>,
     <<"3","."," ","K","i","l","i","f","i"," ","4","."," ","L","a","m","u">>,
     <<"K","i","l","i","f","i">>} >>

\* the sequences that take their first n lines from the first n slots
RECURSIVE SlotProduct(_)
SlotProduct(n) ==
    IF n = 0 THEN {<<>>}
    ELSE {Append(d, line) : d \in SlotProduct(n - 1), line \in DocSlots[n]}

ShortDocuments == SlotProduct(Len(DocSlots))

InitDocument ==
    /\ mode = "parse_constitution"
    /\ pc = "preamble loop"
    /\ lines \in ShortDocuments
    /\ i = 0
    /\ preamble_start = None
    /\ preamble_end = None
    /\ preamble = <<>>
    /\ content_text = <<>>
    /\ chapter_matches = <<>>
    /\ idx = 0
    /\ chapters = <<>>
    /\ schedules = <<>>
    /\ article_positions = <<>>
    /\ article_lines = <<>> /\ clauses = <<>> /\ current_clause_num = None
    /\ current_clause_text = <<>> /\ current_subclauses = <<>>
    /\ implicit_clause_num = 1

\* Lines 35-37 with the threshold itself accepted.
NewStart_AtThreshold(line, index, start) ==
    IF strip(line) = PREAMBLE /\ start = None /\ index >= TocThreshold
    THEN index + 1 ELSE start

\* preamble_start after lines 35-37 for the line of index index
NewStart(line, index, start) ==
    IF strip(line) = PREAMBLE /\ start = None /\ index > TocThreshold
    THEN index + 1 ELSE start

\* the condition of line 38, with preamble_start as lines 35-37 left it
EndsPreamble(line, index, start) ==
    start # None /\ StartsWith(strip(line), CHAPTER_ONE) /\ index > start

\* One iteration of the loop of lines 34-40, for the line of index i; the
\* loop leaves at the break of line 40 and after the last line.
PreambleLoop ==
    LET line  == lines[i + 1]
        start == NewStart(line, i, preamble_start)
    IN
    /\ mode = "parse_constitution" /\ pc = "preamble loop"
    /\ i < Len(lines)
    /\ preamble_start' = start
    /\ preamble_end' = IF EndsPreamble(line, i, start) THEN i ELSE preamble_end
    /\ i' = i + 1
    /\ pc' = IF EndsPreamble(line, i, start) \/ i + 1 = Len(lines)
             THEN "extract preamble" ELSE pc
    /\ UNCHANGED <<mode, lines, preamble, content_text, chapter_matches, idx,
                   chapters, schedules, clauseVars, titleVars>>

\* a line of the preamble that is kept (line 47)
KeptInPreamble(line) ==
    /\ line # <<>>
    /\ ~StartsWith(line, RunningHeader)
    /\ line # DocumentTitle

\* Lines 43-62: the preamble text, content_text and the chapter headers.
ExtractPreamble ==
    LET stripped == [j \in 1..Len(lines) |-> strip(lines[j])]
        content_start == IF preamble_end # None THEN preamble_end ELSE 0
        text == join(<<NL>>, Slice(lines, content_start, Len(lines)))
    IN
    /\ mode = "parse_constitution" /\ pc = "extract preamble"
    /\ preamble' =
          IF preamble_start # None /\ preamble_end # None
          THEN join(<<" ">>, SelectSeq(Slice(stripped, preamble_start, preamble_end),
                                       KeptInPreamble))
          ELSE <<>>
    /\ content_text' = text
    /\ chapter_matches' = finditer(text, 0)
    /\ pc' = "chapter loop"
    /\ UNCHANGED <<mode, lines, i, preamble_start, preamble_end, idx, chapters,
                   schedules, clauseVars, titleVars>>

\* chapter_end of lines 80-88 for the match of index k
chapter_end(k) ==
    LET chapter_start == chapter_matches[k + 1].end
        schedule_match == Search(content_text, FIRST_SCHEDULE, chapter_start)
    IN  IF k + 1 < Len(chapter_matches) THEN chapter_matches[k + 2].start
        ELSE IF schedule_match # None THEN schedule_match
        ELSE Len(content_text)

\* The chapter object of lines 72-99 for the match of index k, with
\* chapter_content, the text parse_articles_improved makes the articles of,
\* as its content.
chapter_obj(k) ==
    LET match == chapter_matches[k + 1]
        chapter_content == Slice(content_text, match.end, chapter_end(k))
    IN  [number   |-> word_to_num(match.g1),
         title    |-> strip(match.g2),
         content  |-> chapter_content,
         articles |-> parse_articles_improved(chapter_content)]

\* The chapter loop, keeping a chapter only when its number is above the
\* number of the last chapter kept.
ChapterLoop_KeepsIncreasing ==
    /\ mode = "parse_constitution" /\ pc = "chapter loop"
    /\ idx < Len(chapter_matches)
    /\ chapters' = IF chapters # <<>> /\
                      chapter_obj(idx).number <= chapters[Len(chapters)].number
                   THEN chapters
                   ELSE Append(chapters, chapter_obj(idx))
    /\ idx' = idx + 1
    /\ UNCHANGED <<mode, pc, lines, i, preamble_start, preamble_end, preamble,
                   content_text, chapter_matches, schedules, clauseVars,
                   titleVars>>

\* One iteration of the loop of lines 71-101.
ChapterLoop ==
    /\ mode = "parse_constitution" /\ pc = "chapter loop"
    /\ idx < Len(chapter_matches)
    /\ chapters' = Append(chapters, chapter_obj(idx))
    /\ idx' = idx + 1
    /\ UNCHANGED <<mode, pc, lines, i, preamble_start, preamble_end, preamble,
                   content_text, chapter_matches, schedules, clauseVars,
                   titleVars>>

\* The chapter loop has taken every match: the schedules (line 105) and the
\* return.
EndChapterLoop ==
    /\ mode = "parse_constitution" /\ pc = "chapter loop"
    /\ idx = Len(chapter_matches)
    /\ schedules' = parse_schedules(content_text)
    /\ pc' = "done"
    /\ UNCHANGED <<mode, lines, i, preamble_start, preamble_end, preamble,
                   content_text, chapter_matches, idx, chapters, clauseVars,
                   titleVars>>

NextSegment ==
    \/ PreambleLoop
    \/ ExtractPreamble
    \/ ChapterLoop
    \/ EndChapterLoop

SpecSegment == InitSegment /\ [][NextSegment]_vars

\* parse_constitution on the short documents
SpecDocument == InitDocument /\ [][NextSegment]_vars

-----------------------------------------------------------------------------
(* Claims about parse_constitution.                                        *)

Segmenting == mode = "parse_constitution"

\* the least element of a non-empty set of integers
Least(S) == CHOOSE p \in S : \A q \in S : p <= q

\* The line is a chapter header: CHAPTER, a space, an ordinal word, a dash
\* and a title.
C8_IsHeader(line) ==
    \E k \in 1..Len(OrdinalWords) : \E dash \in {EmDash, "-"} :
        /\ StartsWith(line, CHAPTER \o <<" ">> \o OrdinalWords[k] \o <<dash>>)
        /\ Len(line) > Len(CHAPTER) + Len(OrdinalWords[k]) + 2

C8_HeaderNumber(line) ==
    CHOOSE k \in 1..Len(OrdinalWords) : \E dash \in {EmDash, "-"} :
        StartsWith(line, CHAPTER \o <<" ">> \o OrdinalWords[k] \o <<dash>>)

\* C8, as claimed: the chapter numbers of the output are strictly
\* increasing in document order.
C8_StrictlyIncreasing ==
    Segmenting =>
        \A k \in 1..(Len(chapters) - 1) :
            chapters[k].number < chapters[k + 1].number

\* C8, amended: the chapter numbers of the output are the numbers of the
\* ordinal words of the chapter headers of the content (the lines from the
\* preamble end on, or all lines when no preamble end was found), one per
\* header and in document order, increasing or not.
C8_NumbersFollowHeaders ==
    (Segmenting /\ pc = "done") =>
        LET content_start == IF preamble_end # None THEN preamble_end ELSE 0
            headers == SelectSeq(Slice(lines, content_start, Len(lines)),
                                 C8_IsHeader)
        IN  /\ Len(chapters) = Len(headers)
            /\ \A k \in 1..Len(headers) :
                   chapters[k].number = C8_HeaderNumber(headers[k])

\* The document has "CHAPTER TWO-B" before "CHAPTER ONE" and the output has
\* chapter 2 before chapter 1.
C8_Witness ==
    /\ Segmenting /\ pc = "done"
    /\ Len(chapters) = 2
    /\ chapters[1].number = 2 /\ chapters[1].title = <<"B">>
    /\ chapters[2].number = 1 /\ chapters[2].title = <<"A">>

\* C9: a PREAMBLE line at an index of 200 or less is never accepted; the
\* accepted start is the first of the lines taken so far with an index
\* above 200 whose trimmed content is "PREAMBLE" (preamble_start is the
\* index after it), and a later such line never replaces it.
C9_PreambleStart ==
    Segmenting =>
        LET late == {j \in 0..(i - 1) :
                        j > TocThreshold /\ strip(lines[j + 1]) = PREAMBLE}
        IN  preamble_start = IF late = {} THEN None ELSE Least(late) + 1

\* The loop has taken every line of a document with PREAMBLE at the indices
\* 50, 200, 201 and 203, and the accepted start is the line of index 201.
C9_Witness ==
    /\ Segmenting /\ pc = "done" /\ i = Len(lines)
    /\ \A j \in {50, TocThreshold, TocThreshold + 1, TocThreshold + 3} :
           strip(lines[j + 1]) = PREAMBLE
    /\ preamble_start = TocThreshold + 2

\* C10: once a preamble start is accepted, the preamble end is the first
\* line after the accepted PREAMBLE line whose trimmed content begins with
\* "CHAPTER ONE", the line right after the PREAMBLE line included; with no
\* such line the preamble end is null and the preamble text is empty.
C10_PreambleEnd ==
    (Segmenting /\ pc # "preamble loop") =>
        /\ preamble_start # None =>
              LET after == {j \in preamble_start..(Len(lines) - 1) :
                               StartsWith(strip(lines[j + 1]), CHAPTER_ONE)}
              IN  preamble_end = IF after = {} THEN None ELSE Least(after)
        /\ (pc # "extract preamble" /\ preamble_end = None) => preamble = <<>>

-----------------------------------------------------------------------------
(* Claims about the chapter bodies and the schedules.                      *)

Parsed == Segmenting /\ pc = "done"

\* the offsets of content_text where "FIRST SCHEDULE" occurs
ScheduleMarks ==
    {p \in 0..Len(content_text) :
        /\ p + Len(FIRST_SCHEDULE) <= Len(content_text)
        /\ \A c \in 1..Len(FIRST_SCHEDULE) : content_text[p + c] = FIRST_SCHEDULE[c]}

\* C11: the chapters are output in the order of their headers, and the body
\* of each is the text from the end of its header match to the start of the
\* next header match; the body of the last one runs to the start of the
\* first "FIRST SCHEDULE" occurrence when there is one, and to the end of
\* the document otherwise.
C11_ChapterBodies ==
    Parsed =>
        /\ Len(chapters) = Len(chapter_matches)
        /\ \A k \in 1..Len(chapters) :
              LET last == IF ScheduleMarks # {} THEN Least(ScheduleMarks)
                          ELSE Len(content_text)
                  stop == IF k < Len(chapters) THEN chapter_matches[k + 1].start
                          ELSE last
              IN  /\ chapters[k].number = word_to_num(chapter_matches[k].g1)
                  /\ chapters[k].content =
                         Slice(content_text, chapter_matches[k].end, stop)

\* C12: the schedules are the six records numbered 1 to 6, in that order,
\* with the titles and references of schedule_info, when content_text has a
\* "FIRST SCHEDULE" occurrence, and no record when it has none, never a part
\* of the six; the payloads of the schedules 2 to 6 are the fixed ones.
C12_SixOrNone ==
    /\ Segmenting => Len(schedules) \in {0, Len(schedule_info)}
    /\ Parsed =>
          IF ScheduleMarks = {} THEN schedules = <<>>
          ELSE /\ Len(schedules) = 6
               /\ \A k \in 1..6 :
                     /\ schedules[k].number = k
                     /\ schedules[k].title = schedule_info[k].title
                     /\ schedules[k].reference = schedule_info[k].reference
                     /\ k >= 2 => schedules[k].content = FixedContent(k)

\* A document with the "FIRST SCHEDULE" marker and no county after it has
\* the six records, the first with an empty county list.
C12_Witness ==
    /\ Parsed
    /\ ScheduleMarks # {}
    /\ Len(schedules) = 6
    /\ schedules[1].content.counties = <<>>
    /\ schedules[6].title = "TRANSITIONAL AND CONSEQUENTIAL PROVISIONS"

\* The scanned prefix: the first 8000 characters of the schedule section.
C13_Scanned ==
    LET section == Slice(content_text, Least(ScheduleMarks), Len(content_text))
    IN  IF Len(section) <= ScanLimit THEN section ELSE SubSeq(section, 1, ScanLimit)

\* Whether a decimal number followed by a period starts at offset p of text.
C13_IsToken(text, p) ==
    /\ text[p + 1] \in DigitSet
    /\ p > 0 => text[p] \notin DigitSet
    /\ \E d \in 1..(Len(text) - p - 1) :
          /\ \A c \in 1..d : text[p + c] \in DigitSet
          /\ text[p + d + 1] = "."

\* The entry that the token at offset p of text begins, stop being the
\* offset of the next token or the end of the text: the decimal number, and
\* after the period and some whitespace the name, which runs to the end of
\* its line or to the next token; ok tells whether there is such a name, of
\* letters, spaces and hyphens only.
C13_Entry(text, p, stop) ==
    LET d == CHOOSE n \in 1..(Len(text) - p - 1) :
                 /\ \A c \in 1..n : text[p + c] \in DigitSet
                 /\ text[p + n + 1] = "."
        rest  == Slice(text, p + d + 1, stop)
        inked == {c \in 1..Len(rest) : rest[c] \notin Whitespace}
        a     == Least(inked)
        ends  == {c \in a..Len(rest) : rest[c] = NL}
        name  == SubSeq(rest, a, IF ends = {} THEN Len(rest) ELSE Least(ends) - 1)
    IN  IF inked # {} /\ a > 1 /\ \A c \in 1..Len(name) : name[c] \in NameChars
        THEN [ok |-> TRUE, number |-> int(Slice(text, p, p + d)), name |-> strip(name)]
        ELSE [ok |-> FALSE, number |-> 0, name |-> <<>>]

\* The entries of text with a number of at most 47, in the order of the
\* text.
C13_Expected(text) ==
    LET IsToken(p) == C13_IsToken(text, p)
        tokens == SelectSeq([p \in 1..Len(text) |-> p - 1], IsToken)
        entries == [k \in 1..Len(tokens) |->
                       C13_Entry(text, tokens[k],
                                 IF k < Len(tokens) THEN tokens[k + 1] ELSE Len(text))]
        Keep(e) == e.ok /\ e.number <= 47
        kept == SelectSeq(entries, Keep)
    IN  [k \in 1..Len(kept) |-> [number |-> kept[k].number, name |-> kept[k].name]]

\* C13: the county list of schedule 1 holds the "<decimal>. <name>" entries
\* of the first 8000 characters of the schedule section that have a number
\* of at most 47, each once and in the order of the text; an entry with a
\* greater number, or without a name of letters, spaces and hyphens, is left
\* out and the entries after it are kept as they are.
C13_CountiesAreTheEntries ==
    (Parsed /\ schedules # <<>>) =>
        schedules[1].content.counties = C13_Expected(C13_Scanned)

\* A schedule section with "48. Nowhere", "2. Tana River" and "3. Kilifi"
\* has the counties 2 and 3.
C13_Witness ==
    /\ Parsed
    /\ lines[10] = <<"4","8","."," ","N","o","w","h","e","r","e">>
    /\ schedules # <<>>
    /\ schedules[1].content.counties =
           << [number |-> 2, name |-> <<"T","a","n","a"," ","R","i","v","e","r">>],
              [number |-> 3, name |-> <<"K","i","l","i","f","i">>] >>

\* The lines of a chapter body that the title scan looks at (the body
\* without its page markers, split at the line breaks), and the indices of
\* those it confirms as article titles, in order.
C14_BodyLines(content) == split(clean_page_markers(content, 0))

C14_Titles(content) ==
    LET body_lines == C14_BodyLines(content)
        Confirms(k) == IsConfirmed(body_lines, k)
    IN  SelectSeq([k \in 1..Len(body_lines) |-> k - 1], Confirms)

\* C14: the articles of every chapter are, one for one and in the same
\* order, the confirmed title lines of its body: as many articles as
\* confirmed lines, the k-th article with the title of the k-th confirmed
\* line (trimmed, without its final period) and with the number the
\* resolver gives that title after the article before it, increasing or
\* not.
C14_ArticlesFollowTitles ==
    Segmenting =>
        \A c \in 1..Len(chapters) :
            LET body_lines == C14_BodyLines(chapters[c].content)
                titles == C14_Titles(chapters[c].content)
                articles == chapters[c].articles
            IN  /\ Len(articles) = Len(titles)
                /\ \A k \in 1..Len(articles) :
                      LET line == strip(body_lines[titles[k] + 1])
                          title == strip(SubSeq(line, 1, Len(line) - 1))
                      IN  /\ line[Len(line)] = "."
                          /\ articles[k].title = title
                          /\ articles[k].number =
                                 NumberAfter(Looked(title),
                                             IF k = 1 THEN 0 ELSE articles[k - 1].number)

\* A chapter with the confirmed titles "Voting in." and "Sovereignty of the
\* people." has article 86 before article 1; the title "Plain statement
\* one." of another document's chapter is not confirmed.
C14_Witness ==
    /\ Parsed
    /\ Len(chapters) = 1
    /\ Len(chapters[1].articles) = 2
    /\ chapters[1].articles[1].number = 86
    /\ chapters[1].articles[1].title = <<"V","o","t","i","n","g"," ","i","n">>
    /\ chapters[1].articles[2].number = 1
    /\ chapters[1].articles[2].title =
           <<"S","o","v","e","r","e","i","g","n","t","y"," ","o","f"," ","t","h","e"," ","p","e","o","p","l","e">>

\* The document is a minimal one: a preamble, no chapter before "CHAPTER
\* ONE", a first article with an explicit clause, a second article with
\* running text only, and the "FIRST SCHEDULE" marker followed by three
\* numbered county lines.
C15_Minimal ==
    /\ lines[1] = PREAMBLE
    /\ lines[3] = BodyLine
    /\ lines[6] = <<"(","1",")"," ","F","i","r","s","t"," ","p","a","r","t",".">>
    /\ lines[8] \in {<<"a"," ","p","e","r","s","o","n">>,
                     <<"P","l","a","i","n"," ","s","t","a","t","e","m","e","n","t"," ","t","w","o",".">>}
    /\ lines[9] = FIRST_SCHEDULE
    /\ lines[10] = <<"1","."," ","M","o","m","b","a","s","a">>
    /\ lines[11] = <<"2","."," ","T","a","n","a"," ","R","i","v","e","r">>
    /\ lines[12] = <<"3","."," ","K","i","l","i","f","i">>

\* C15: every minimal document is parsed into exactly 1 chapter, 2 articles
\* in that chapter and 3 counties in the first schedule.
C15_MinimalDocument ==
    (Parsed /\ C15_Minimal) =>
        /\ Len(chapters) = 1
        /\ Len(chapters[1].articles) = 2
        /\ Len(schedules) > 0
        /\ Len(schedules[1].content.counties) = 3

\* C17: the chapter bodies are pairwise disjoint parts of content_text, and
\* every chapter body ends at or before the offset where the schedule
\* section (the text from the first "FIRST SCHEDULE" occurrence on) starts.
C17_NoOverlap ==
    Parsed =>
        /\ \A k \in 1..(Len(chapters) - 1) :
               chapter_matches[k].end + Len(chapters[k].content)
                   <= chapter_matches[k + 1].end
        /\ \A k \in 1..Len(chapters) :
               ScheduleMarks # {} =>
                   chapter_matches[k].end + Len(chapters[k].content)
                       <= Least(ScheduleMarks)

====
